---- MODULE Spec2Model ----
(***************************************************************************)
(* codebase-graph-mcp: the command broker (CommandQueue, command-queue.js) *)
(* and the versioned graph store (GraphDatabase, database.js, with its     *)
(* ChangeHistory, history.js).                                             *)
(*                                                                         *)
(* The broker is single-threaded JavaScript: every public method runs to   *)
(* completion, so each method is one action.  Time is a discrete clock     *)
(* `now`; a timer armed by setTimeout fires when the clock reaches its     *)
(* deadline, and the clock does not pass the deadline of an armed timer.   *)
(***************************************************************************)
EXTENDS Integers, Sequences, FiniteSets, TLC

(***************************************************************************)
(* Bounds of the model.                                                    *)
(***************************************************************************)
MaxCalls == 4       \* number of sendCommand and waitForCommand calls together
MaxTime == 1        \* largest value of the clock
MaxComponents == 2      \* component ids in use
MaxTasks == 1           \* task ids in use
MaxComments == 1        \* comment ids in use
MaxRelationships == 2   \* relationship ids in use
MaxSnapshots == 1       \* snapshot ids in use
MaxJournal == 5         \* ChangeEvent nodes the journal may hold
MaxStoreCalls == 4      \* number of calls on the store
MaxLimit == 3           \* largest limit passed to getHistory
MaxConnections == 2     \* SSE connections made
MaxBusCalls == 3        \* sendCommand and waitForCommand calls made while events are listened to

(***************************************************************************)
(* Program constants.                                                      *)
(***************************************************************************)
maxHistorySize == 1000      \* this.maxHistorySize

AgentIds == {"A", "B"}
Timeouts == {1}
Priorities == {"LOW", "MEDIUM", "HIGH", "URGENT"}
NONE == "NONE"      \* an absent (undefined) field
NoId == 0           \* command.id absent: sendCommand generates one
UserCommandIds == {100}

\* Filters an agent may pass to waitForCommand ({} is the empty filter).
NoFilters == [taskTypes |-> {}, componentIds |-> {}, priority |-> NONE]
FilterInputs ==
    { NoFilters,
      [taskTypes |-> {}, componentIds |-> {}, priority |-> "MEDIUM"],
      [taskTypes |-> {"UPDATE"}, componentIds |-> {"X"}, priority |-> NONE] }

\* Commands a producer may pass to sendCommand.
CommandInputs ==
    { [id |-> NoId, taskType |-> "UPDATE", targetComponentIds |-> {"X"}, priority |-> "LOW"],
      [id |-> 100, taskType |-> "TESTING", targetComponentIds |-> {"Y"}, priority |-> "URGENT"],
      [id |-> NoId, taskType |-> NONE, targetComponentIds |-> {}, priority |-> "MEDIUM"],
      [id |-> NoId, taskType |-> NONE, targetComponentIds |-> {}, priority |-> NONE] }

VARIABLES
    pendingCommands,   \* Map commandId -> command, as its entries in insertion order
    waitingAgents,     \* Map agentId -> {filters, wait, startedAt}, in insertion order
    commandHistory,    \* array of {timestamp, action, agentId, data}
    waits,             \* the promise of every waitForCommand call, by call number
    nextCommandId,     \* source of generateCommandId()
    now,               \* the clock (Date.now())
    components,        \* the Component nodes of the graph, as their properties
    tasks,             \* the Task nodes
    comments,          \* the Comment nodes
    relationships,     \* the edges: {id, type, sourceId, targetId}
    journal,           \* the ChangeEvent nodes, in the order of their creation
    snapshots,         \* the Snapshot nodes
    inflight,          \* the createComment and createSnapshot calls between two of their queries
    graphAt,           \* history: the graph as it was when the clock left each time
    captured,          \* history: the graph as it was when each snapshot was taken
    storeCalls,        \* history: the number of calls made on the store
    rewound,           \* history: a restore or a replay has rewritten the graph
    returned,          \* history: the last call on the store and what it returned
    commandQueue,        \* MCPServer: Map commandId -> command, in insertion order
    serverWaitingAgents, \* MCPServer: Map agentId -> {agentId, filters, wait}
    serverWaits,         \* MCPServer: the promise of every waitForCommand call
    listeners,         \* the listeners of the CommandQueue's events, in the order registered
    sseClients,        \* HTTP server: Map clientId -> res, in insertion order
    connections,       \* the SSE connections made so far: {clientId, state, broken}
    sseReceived,       \* history: the events written to each connection
    thrown             \* history: the last sendCommand or waitForCommand failed
                       \* with the error of a listener

brokerVars == <<pendingCommands, waitingAgents, commandHistory, waits, nextCommandId>>
storeVars == <<components, tasks, comments, relationships, journal, snapshots, inflight>>
historyVars == <<graphAt, captured, storeCalls, rewound, returned>>
serverVars == <<commandQueue, serverWaitingAgents, serverWaits>>
busVars == <<listeners, sseClients, connections, sseReceived, thrown>>
vars == <<pendingCommands, waitingAgents, commandHistory, waits, nextCommandId, now,
          components, tasks, comments, relationships, journal, snapshots, inflight,
          graphAt, captured, storeCalls, rewound, returned,
          commandQueue, serverWaitingAgents, serverWaits,
          listeners, sseClients, connections, sseReceived, thrown>>

\* the graph proper: every node and edge that is neither ChangeEvent nor Snapshot
EmptyGraph == [components |-> {}, tasks |-> {}, comments |-> {}, relationships |-> {}]
Graph == [components |-> components, tasks |-> tasks, comments |-> comments,
          relationships |-> relationships]

(***************************************************************************)
(* Helpers on sequences used as insertion-ordered Maps.                    *)
(***************************************************************************)
RECURSIVE SeqFilterOut(_, _, _)
\* the entries of map s without the one whose field `key` is k
SeqFilterOut(s, key, k) ==
    IF s = <<>> THEN <<>>
    ELSE IF Head(s)[key] = k THEN SeqFilterOut(Tail(s), key, k)
         ELSE <<Head(s)>> \o SeqFilterOut(Tail(s), key, k)

MapHas(s, key, k) == \E i \in 1..Len(s) : s[i][key] = k
MapGet(s, key, k) == s[CHOOSE i \in 1..Len(s) : s[i][key] = k]
MapDelete(s, key, k) == SeqFilterOut(s, key, k)
\* Map.prototype.set: an existing key keeps its position, a new key goes last
MapSet(s, key, v) ==
    IF MapHas(s, key, v[key])
    THEN [i \in 1..Len(s) |-> IF s[i][key] = v[key] THEN v ELSE s[i]]
    ELSE Append(s, v)

(***************************************************************************)
(* CommandQueue: pure helpers.                                             *)
(***************************************************************************)
\* priorityLevels[p] || 1
priorityLevels(p) ==
    CASE p = "LOW" -> 1
      [] p = "MEDIUM" -> 2
      [] p = "HIGH" -> 3
      [] p = "URGENT" -> 4
      [] OTHER -> 1

commandMatchesFilters(command, filters) ==
    IF filters = NoFilters THEN TRUE
    ELSE /\ (filters.taskTypes # {} =>
                (command.taskType # NONE /\ command.taskType \in filters.taskTypes))
         /\ (filters.componentIds # {} =>
                (command.targetComponentIds \cap filters.componentIds # {}))
         /\ (filters.priority # NONE =>
                ~(priorityLevels(command.priority) < priorityLevels(filters.priority)))

\* a faulty scan: it keeps the last match instead of returning the first
findLastMatchingPendingCommand(filters) ==
    LET hits == {i \in 1..Len(pendingCommands) :
                    commandMatchesFilters(pendingCommands[i], filters)}
    IN IF hits = {} THEN 0 ELSE CHOOSE i \in hits : \A j \in hits : i >= j

\* index of the first pending command matching the filters, 0 if none (null)
findMatchingPendingCommand(filters) ==
    LET hits == {i \in 1..Len(pendingCommands) :
                    commandMatchesFilters(pendingCommands[i], filters)}
    IN IF hits = {} THEN 0 ELSE CHOOSE i \in hits : \A j \in hits : i <= j

\* a faulty scan: it keeps the last match instead of returning the first
findLastMatchingWaitingAgent(command) ==
    LET hits == {i \in 1..Len(waitingAgents) :
                    commandMatchesFilters(command, waitingAgents[i].filters)}
    IN IF hits = {} THEN 0 ELSE CHOOSE i \in hits : \A j \in hits : i >= j

\* index of the first waiting agent whose filters match, 0 if none (null)
findMatchingWaitingAgent(command) ==
    LET hits == {i \in 1..Len(waitingAgents) :
                    commandMatchesFilters(command, waitingAgents[i].filters)}
    IN IF hits = {} THEN 0 ELSE CHOOSE i \in hits : \A j \in hits : i <= j

\* addToHistory: push, then trim the oldest entries beyond maxHistorySize
addToHistory(history, action, agentId, data) ==
    LET pushed == Append(history,
                    [action |-> action, agentId |-> agentId, data |-> data])
    IN IF Len(pushed) > maxHistorySize
       THEN SubSeq(pushed, Len(pushed) - maxHistorySize + 1, Len(pushed))
       ELSE pushed

\* Array.prototype.slice(start): a negative start counts from the end
slice(array, start) ==
    LET k == IF start < 0
             THEN (IF Len(array) + start > 0 THEN Len(array) + start ELSE 0)
             ELSE (IF start < Len(array) THEN start ELSE Len(array))
    IN SubSeq(array, k + 1, Len(array))

\* getHistory(limit): this.commandHistory.slice(-limit)
getHistory(limit) == slice(commandHistory, 0 - limit)

(***************************************************************************)
(* The promise of a waitForCommand call.  state is ACTIVE while the        *)
(* promise is unsettled; timer is TRUE while its setTimeout handle is      *)
(* armed; result is the command it resolved with or the error it was      *)
(* rejected with; ended is the number of times it was resolved or rejected.*)
(***************************************************************************)
NoResult == [error |-> NONE]
Rejection(message) == [error |-> message]

Superseded == "Agent started waiting for new command, canceling previous wait"
CancelledByRequest == "Wait cancelled by external request"
TimedOut == "Wait for command timed out"

\* settling a promise: a promise that is already settled ignores the call;
\* ended counts the calls of its resolve and reject functions
Settle(ws, w, state, result) ==
    IF ws[w].state = "ACTIVE"
    THEN [ws EXCEPT ![w].state = state, ![w].result = result, ![w].ended = @ + 1]
    ELSE [ws EXCEPT ![w].ended = @ + 1]

\* clearTimeout(timeoutHandle) of wait w
ClearTimer(ws, w) == [ws EXCEPT ![w].timer = FALSE]

\* calls made so far that the bounds count
Calls == Len(waits) + (nextCommandId - 1)

TypeOK ==
    /\ now \in 0..MaxTime
    /\ nextCommandId \in 1..(MaxCalls + 1)
    /\ Len(waits) <= MaxCalls
    /\ Len(commandHistory) <= maxHistorySize
    /\ \A i \in 1..Len(waits) : waits[i].state \in {"ACTIVE", "RESOLVED", "REJECTED"}
    /\ \A i \in 1..Len(waitingAgents) : waitingAgents[i].agentId \in AgentIds

Init ==
    /\ pendingCommands = <<>>
    /\ waitingAgents = <<>>
    /\ commandHistory = <<>>
    /\ waits = <<>>
    /\ nextCommandId = 1
    /\ now = 0
    /\ components = {}
    /\ tasks = {}
    /\ comments = {}
    /\ relationships = {}
    /\ journal = <<>>
    /\ snapshots = {}
    /\ inflight = {}
    /\ graphAt = [t \in 0..MaxTime |-> EmptyGraph]
    /\ captured = [i \in 1..MaxSnapshots |-> EmptyGraph]
    /\ storeCalls = 0
    /\ rewound = FALSE
    /\ returned = [op |-> NONE, args |-> <<>>, threw |-> FALSE, value |-> NONE]
    /\ commandQueue = <<>>
    /\ serverWaitingAgents = <<>>
    /\ serverWaits = <<>>
    /\ listeners = <<>>
    /\ sseClients = <<>>
    /\ connections = <<>>
    /\ sseReceived = <<>>
    /\ thrown = FALSE

(***************************************************************************)
(* The events of the CommandQueue (an EventEmitter) and the SSE clients of *)
(* the HTTP server that listens to them.                                   *)
(***************************************************************************)
\* a listener is "SSE", the one setupEventHandlers registers, which broadcasts
\* the event to the SSE clients, or "THROWS", a listener of another module
\* that throws; ListenerError is the error it throws
ListenerError == "listener failed"

Bus == [sseClients |-> sseClients, sseReceived |-> sseReceived]

\* broadcastSSE: the event is written to every client of the Map; a client
\* whose write throws is deleted from the Map
broadcastSSE(bus, event, data) ==
    [sseClients |-> SelectSeq(bus.sseClients, LAMBDA e : ~connections[e.res].broken),
     sseReceived |->
        [r \in DOMAIN bus.sseReceived |->
            IF (\E i \in DOMAIN bus.sseClients : bus.sseClients[i].res = r)
               /\ ~connections[r].broken
            THEN Append(bus.sseReceived[r], [event |-> event, data |-> data])
            ELSE bus.sseReceived[r]]]

RECURSIVE emit(_, _, _, _)
\* EventEmitter.emit: the listeners are called in the order registered, and
\* the error a listener throws leaves emit, past the listeners after it
emit(ls, bus, event, data) ==
    IF ls = <<>> THEN [bus |-> bus, threw |-> FALSE]
    ELSE IF Head(ls) = "THROWS" THEN [bus |-> bus, threw |-> TRUE]
    ELSE emit(Tail(ls), broadcastSSE(bus, event, data), event, data)

(***************************************************************************)
(* waitForCommand(agentId, {timeout, filters})                             *)
(***************************************************************************)
\* a faulty resolve handle: it leaves the agent in the waiter registry
AgentResolveStaysRegistered(ws, agents, history, entry, command) ==
    <<Settle(ClearTimer(ws, entry.wait), entry.wait, "RESOLVED", command),
      agents,
      addToHistory(history, "COMMAND_RECEIVED", entry.agentId, command)>>

\* the `resolve` handle stored with a waiting agent: returns <<waits, agents, history>>
AgentResolve(ws, agents, history, entry, command) ==
    <<Settle(ClearTimer(ws, entry.wait), entry.wait, "RESOLVED", command),
      MapDelete(agents, "agentId", entry.agentId),
      addToHistory(history, "COMMAND_RECEIVED", entry.agentId, command)>>

\* the `reject` handle stored with a waiting agent
AgentReject(ws, agents, history, entry, message) ==
    <<Settle(ClearTimer(ws, entry.wait), entry.wait, "REJECTED", Rejection(message)),
      MapDelete(agents, "agentId", entry.agentId),
      addToHistory(history, "WAIT_FAILED", entry.agentId, Rejection(message))>>

\* lines 39-43: reject the previous wait of the agent, if it is still registered
RejectPrevious(ws, agents, history, agentId) ==
    IF MapHas(agents, "agentId", agentId)
    THEN AgentReject(ws, agents, history, MapGet(agents, "agentId", agentId), Superseded)
    ELSE <<ws, agents, history>>

\* a faulty waitForCommand: it returns a pending command and leaves it in the queue
waitForCommandKeepsPending(agentId, timeout, filters) ==
    /\ Calls < MaxCalls
    /\ LET m == findMatchingPendingCommand(filters)
           w == Len(waits) + 1
       IN IF m # 0
          THEN \* a pending command matches: take it and return at once
               LET matchingCommand == pendingCommands[m]
               IN /\ pendingCommands' = pendingCommands
                  /\ commandHistory' =
                        addToHistory(commandHistory, "COMMAND_RECEIVED", agentId, matchingCommand)
                  /\ waits' = Append(waits,
                        [agentId |-> agentId, filters |-> filters, deadline |-> now + timeout,
                         state |-> "RESOLVED", timer |-> FALSE, result |-> matchingCommand,
                         ended |-> 1])
                  /\ thrown' = FALSE
                  /\ UNCHANGED <<waitingAgents, sseClients, sseReceived>>
          ELSE \* the executor of the promise; an error thrown by emit rejects the promise
               LET prev == RejectPrevious(waits, waitingAgents, commandHistory, agentId)
                   entry == [agentId |-> agentId, wait |-> w, filters |-> filters]
                   e == emit(listeners, Bus, "agent-waiting", agentId)
               IN /\ waits' = Append(prev[1],
                        [agentId |-> agentId, filters |-> filters, deadline |-> now + timeout,
                         state |-> IF e.threw THEN "REJECTED" ELSE "ACTIVE", timer |-> TRUE,
                         result |-> IF e.threw THEN Rejection(ListenerError) ELSE NoResult,
                         ended |-> IF e.threw THEN 1 ELSE 0])
                  /\ waitingAgents' = MapSet(prev[2], "agentId", entry)
                  /\ commandHistory' =
                        addToHistory(prev[3], "WAIT_STARTED", agentId,
                                     [filters |-> filters, timeout |-> timeout])
                  /\ sseClients' = e.bus.sseClients
                  /\ sseReceived' = e.bus.sseReceived
                  /\ thrown' = e.threw
                  /\ UNCHANGED pendingCommands
    /\ UNCHANGED <<nextCommandId, now, listeners, connections>>

waitForCommand(agentId, timeout, filters) ==
    /\ Calls < MaxCalls
    /\ LET m == findMatchingPendingCommand(filters)
           w == Len(waits) + 1
       IN IF m # 0
          THEN \* a pending command matches: take it and return at once
               LET matchingCommand == pendingCommands[m]
               IN /\ pendingCommands' = MapDelete(pendingCommands, "id", matchingCommand.id)
                  /\ commandHistory' =
                        addToHistory(commandHistory, "COMMAND_RECEIVED", agentId, matchingCommand)
                  /\ waits' = Append(waits,
                        [agentId |-> agentId, filters |-> filters, deadline |-> now + timeout,
                         state |-> "RESOLVED", timer |-> FALSE, result |-> matchingCommand,
                         ended |-> 1])
                  /\ thrown' = FALSE
                  /\ UNCHANGED <<waitingAgents, sseClients, sseReceived>>
          ELSE \* the executor of the promise; an error thrown by emit rejects the promise
               LET prev == RejectPrevious(waits, waitingAgents, commandHistory, agentId)
                   entry == [agentId |-> agentId, wait |-> w, filters |-> filters]
                   e == emit(listeners, Bus, "agent-waiting", agentId)
               IN /\ waits' = Append(prev[1],
                        [agentId |-> agentId, filters |-> filters, deadline |-> now + timeout,
                         state |-> IF e.threw THEN "REJECTED" ELSE "ACTIVE", timer |-> TRUE,
                         result |-> IF e.threw THEN Rejection(ListenerError) ELSE NoResult,
                         ended |-> IF e.threw THEN 1 ELSE 0])
                  /\ waitingAgents' = MapSet(prev[2], "agentId", entry)
                  /\ commandHistory' =
                        addToHistory(prev[3], "WAIT_STARTED", agentId,
                                     [filters |-> filters, timeout |-> timeout])
                  /\ sseClients' = e.bus.sseClients
                  /\ sseReceived' = e.bus.sseReceived
                  /\ thrown' = e.threw
                  /\ UNCHANGED pendingCommands
    /\ UNCHANGED <<nextCommandId, now, listeners, connections>>

\* a faulty timer callback: it unregisters the agent and forgets to reject
waitTimeoutWithoutReject(w) ==
    /\ waits[w].timer
    /\ waits[w].deadline <= now
    /\ waitingAgents' = MapDelete(waitingAgents, "agentId", waits[w].agentId)
    /\ waits' = ClearTimer(waits, w)
    /\ UNCHANGED <<pendingCommands, commandHistory, nextCommandId, now>>

\* the setTimeout callback of wait w (lines 47-50)
waitTimeout(w) ==
    /\ waits[w].timer
    /\ waits[w].deadline <= now
    /\ waitingAgents' = MapDelete(waitingAgents, "agentId", waits[w].agentId)
    /\ waits' = Settle(ClearTimer(waits, w), w, "REJECTED", Rejection(TimedOut))
    /\ UNCHANGED <<pendingCommands, commandHistory, nextCommandId, now>>

(***************************************************************************)
(* sendCommand(command)                                                    *)
(***************************************************************************)
\* lines 89-94: {...command, id: command.id || generateCommandId(), status: 'PENDING'}
FullCommand(command) ==
    [id |-> IF command.id = NoId THEN nextCommandId ELSE command.id,
     taskType |-> command.taskType,
     targetComponentIds |-> command.targetComponentIds,
     priority |-> command.priority,
     status |-> "PENDING"]

\* what sendCommand returns: {delivered, agentId, command} or {delivered, queued, command}
sendCommandReturn(command) ==
    LET m == findMatchingWaitingAgent(FullCommand(command))
    IN IF m # 0
       THEN [delivered |-> TRUE, queued |-> FALSE, agentId |-> waitingAgents[m].agentId,
             command |-> [FullCommand(command) EXCEPT !.status = "DELIVERED"]]
       ELSE [delivered |-> FALSE, queued |-> TRUE, agentId |-> NONE,
             command |-> FullCommand(command)]

\* a faulty sendCommand: a command that no waiter accepts is logged and dropped
sendCommandDropsUnmatched(command) ==
    /\ Calls < MaxCalls
    /\ LET m == findMatchingWaitingAgent(FullCommand(command))
       IN IF m # 0
          THEN LET agent == waitingAgents[m]
                   delivered == [FullCommand(command) EXCEPT !.status = "DELIVERED"]
                   r == AgentResolve(waits, waitingAgents, commandHistory, agent, delivered)
               IN /\ waits' = r[1]
                  /\ waitingAgents' = r[2]
                  /\ commandHistory' =
                        addToHistory(r[3], "COMMAND_SENT", NONE,
                                     [command |-> delivered, deliveredTo |-> agent.agentId])
                  /\ UNCHANGED pendingCommands
          ELSE /\ commandHistory' =
                     addToHistory(commandHistory, "COMMAND_QUEUED", NONE, FullCommand(command))
               /\ UNCHANGED <<pendingCommands, waits, waitingAgents>>
    /\ nextCommandId' = nextCommandId + 1
    /\ UNCHANGED <<now, busVars>>

sendCommand(command) ==
    /\ Calls < MaxCalls
    /\ LET m == findMatchingWaitingAgent(FullCommand(command))
       IN IF m # 0
          THEN LET agent == waitingAgents[m]
                   delivered == [FullCommand(command) EXCEPT !.status = "DELIVERED"]
                   r == AgentResolve(waits, waitingAgents, commandHistory, agent, delivered)
               IN /\ waits' = r[1]
                  /\ waitingAgents' = r[2]
                  /\ commandHistory' =
                        addToHistory(r[3], "COMMAND_SENT", NONE,
                                     [command |-> delivered, deliveredTo |-> agent.agentId])
                  /\ thrown' = FALSE
                  /\ UNCHANGED <<pendingCommands, sseClients, sseReceived>>
          ELSE LET e == emit(listeners, Bus, "command-queued", FullCommand(command).id)
               IN /\ pendingCommands' = MapSet(pendingCommands, "id", FullCommand(command))
                  /\ commandHistory' =
                        addToHistory(commandHistory, "COMMAND_QUEUED", NONE,
                                     FullCommand(command))
                  /\ sseClients' = e.bus.sseClients
                  /\ sseReceived' = e.bus.sseReceived
                  /\ thrown' = e.threw
                  /\ UNCHANGED <<waits, waitingAgents>>
    /\ nextCommandId' = nextCommandId + 1
    /\ UNCHANGED <<now, listeners, connections>>

(***************************************************************************)
(* cancelCommand(commandId), cancelWait(agentId)                           *)
(***************************************************************************)
cancelCommand(commandId) ==
    /\ IF MapHas(pendingCommands, "id", commandId)
       THEN /\ pendingCommands' = MapDelete(pendingCommands, "id", commandId)
            /\ commandHistory' =
                  addToHistory(commandHistory, "COMMAND_CANCELLED", NONE,
                               MapGet(pendingCommands, "id", commandId))
       ELSE UNCHANGED <<pendingCommands, commandHistory>>
    /\ UNCHANGED <<waitingAgents, waits, nextCommandId, now>>

\* what cancelWait returns
cancelWaitReturn(agentId) == MapHas(waitingAgents, "agentId", agentId)

\* a faulty cancelWait: it unregisters the agent and leaves its wait unsettled
cancelWaitWithoutReject(agentId) ==
    /\ waitingAgents' = MapDelete(waitingAgents, "agentId", agentId)
    /\ UNCHANGED <<waits, commandHistory, pendingCommands, nextCommandId, now>>

cancelWait(agentId) ==
    /\ IF MapHas(waitingAgents, "agentId", agentId)
       THEN LET r == AgentReject(waits, waitingAgents, commandHistory,
                                 MapGet(waitingAgents, "agentId", agentId), CancelledByRequest)
            IN /\ waits' = r[1]
               /\ waitingAgents' = r[2]
               /\ commandHistory' = r[3]
       ELSE UNCHANGED <<waits, waitingAgents, commandHistory>>
    /\ UNCHANGED <<pendingCommands, nextCommandId, now>>

\* the clock advances; an armed timer fires before the clock passes its deadline
Tick ==
    /\ now < MaxTime
    /\ \A w \in 1..Len(waits) : waits[w].timer => waits[w].deadline > now
    /\ \A w \in 1..Len(serverWaits) : serverWaits[w].timer => serverWaits[w].deadline > now
    /\ now' = now + 1
    /\ graphAt' = [graphAt EXCEPT ![now] = Graph]
    /\ UNCHANGED <<brokerVars, storeVars, serverVars, busVars, captured, storeCalls, rewound,
                   returned>>

WaitForCommand ==
    /\ \E a \in AgentIds, t \in Timeouts, f \in FilterInputs : waitForCommand(a, t, f)
    /\ UNCHANGED <<storeVars, historyVars, serverVars>>
WaitTimeout ==
    /\ \E w \in 1..Len(waits) : waitTimeout(w)
    /\ UNCHANGED <<storeVars, historyVars, serverVars, busVars>>
SendCommand ==
    /\ \E c \in CommandInputs : sendCommand(c)
    /\ UNCHANGED <<storeVars, historyVars, serverVars>>
CancelCommand ==
    /\ \E id \in {pendingCommands[i].id : i \in 1..Len(pendingCommands)} \cup UserCommandIds :
            cancelCommand(id)
    /\ UNCHANGED <<storeVars, historyVars, serverVars, busVars>>
CancelWait ==
    /\ \E a \in AgentIds : cancelWait(a)
    /\ UNCHANGED <<storeVars, historyVars, serverVars, busVars>>

BrokerNext ==
    \/ WaitForCommand
    \/ WaitTimeout
    \/ SendCommand
    \/ CancelCommand
    \/ CancelWait
    \/ Tick

BrokerSpec == Init /\ [][BrokerNext]_vars

(***************************************************************************)
(* Properties of the broker.                                               *)
(***************************************************************************)
Registered == {waitingAgents[i].wait : i \in 1..Len(waitingAgents)}
\* the waits a step settles
SettledByStep == {w \in 1..Len(waits) : waits[w].state = "ACTIVE" /\ waits'[w].state # "ACTIVE"}
\* the registered waits whose filters accept command c
Accepting(c) ==
    {waitingAgents[i].wait : i \in {j \in 1..Len(waitingAgents) :
                                        commandMatchesFilters(c, waitingAgents[j].filters)}}

MatchingPending(f) ==
    {i \in 1..Len(pendingCommands) : commandMatchesFilters(pendingCommands[i], f)}

C3_NewWaitSupersedesPrior ==
    [][\A a \in AgentIds, t \in Timeouts, f \in FilterInputs :
          (waitForCommand(a, t, f) /\ MapHas(waitingAgents, "agentId", a)) =>
              LET old == MapGet(waitingAgents, "agentId", a).wait
              IN /\ waits'[old].state = "REJECTED"
                 /\ waits'[old].result = Rejection(Superseded)
                 /\ \E k \in 1..Len(commandHistory') :
                        /\ commandHistory'[k].action = "WAIT_FAILED"
                        /\ commandHistory'[k].agentId = a]_vars

C14_PendingMatchIsDelivered ==
    [][\A a \in AgentIds, t \in Timeouts, f \in FilterInputs :
          (waitForCommand(a, t, f) /\ MatchingPending(f) # {}) =>
              LET w == Len(waits')
              IN /\ waits'[w].state = "RESOLVED"
                 /\ waits'[w].result.status = "DELIVERED"
                 /\ ~MapHas(pendingCommands', "id", waits'[w].result.id)
                 /\ commandHistory'[Len(commandHistory')].action = "COMMAND_RECEIVED"
                 /\ commandHistory'[Len(commandHistory')].agentId = a
                 /\ w \notin {waitingAgents'[i].wait : i \in 1..Len(waitingAgents')}]_vars

\* the command a sendCommand step has stored or delivered under id
SentCommand(id) ==
    IF MapHas(pendingCommands', "id", id)
    THEN MapGet(pendingCommands', "id", id)
    ELSE waits'[CHOOSE w \in SettledByStep : TRUE].result

\* C15 (as claimed): a command sent without a priority is stored or delivered
\* with priority MEDIUM, and a registered waiter whose only filter is the
\* minimum priority MEDIUM accepts it, so that the command is delivered.
C15_MissingPriorityIsMedium ==
    [][\A c \in CommandInputs :
          (sendCommand(c) /\ c.priority = NONE) =>
              /\ SentCommand(FullCommand(c).id).priority = "MEDIUM"
              /\ (\E i \in 1..Len(waitingAgents) :
                      waitingAgents[i].filters =
                          [taskTypes |-> {}, componentIds |-> {}, priority |-> "MEDIUM"])
                    => SettledByStep # {}]_vars

ActiveWaits(a) == {w \in 1..Len(waits) : waits[w].agentId = a /\ waits[w].state = "ACTIVE"}

Newest(n) == SubSeq(commandHistory, Len(commandHistory) - n + 1, Len(commandHistory))

\* C19 (as claimed): the history never holds more than 1000 entries, and for
\* every limit >= 0 getHistory(limit) is the newest min(limit, size) entries.
C19_HistoryBoundedNewestEntries ==
    /\ Len(commandHistory) <= 1000
    /\ \A limit \in 0..MaxLimit :
          getHistory(limit) =
              Newest(IF limit < Len(commandHistory) THEN limit ELSE Len(commandHistory))

\* the terminal entries that a step adds to the history for agent a
TerminalAdded(a) ==
    {k \in (Len(commandHistory) + 1)..Len(commandHistory') :
        /\ commandHistory'[k].action \in {"COMMAND_RECEIVED", "WAIT_FAILED"}
        /\ commandHistory'[k].agentId = a}

\* C39 (as claimed): every wait recorded with WAIT_STARTED gets exactly one
\* terminal entry, COMMAND_RECEIVED or WAIT_FAILED, for its agent: the step
\* that ends the wait, by delivery, cancellation, supersession or timeout,
\* adds that entry to the history.
C39_EndedWaitIsLogged ==
    [][\A w \in SettledByStep : Cardinality(TerminalAdded(waits[w].agentId)) = 1]_vars

\* the filters of a wait accept a command when each field that is present
\* does: taskTypes, when not empty, holds the command's taskType; componentIds,
\* when not empty, shares an id with the command's targets; the command's
\* priority, MEDIUM when it has none, is at least the minimum priority
FiltersAccept(command, filters) ==
    /\ filters.taskTypes # {} => command.taskType \in filters.taskTypes
    /\ filters.componentIds # {} => command.targetComponentIds \cap filters.componentIds # {}
    /\ filters.priority # NONE =>
          priorityLevels(IF command.priority = NONE THEN "MEDIUM" ELSE command.priority)
              >= priorityLevels(filters.priority)

\* C31 (as claimed): after every call no command is PENDING in the queue while
\* an agent is registered whose filters accept it.
C31_NoStrandedMatch ==
    \A i \in 1..Len(pendingCommands), j \in 1..Len(waitingAgents) :
       ~FiltersAccept(pendingCommands[i], waitingAgents[j].filters)

\* the sendCommand calls that have returned, the waits that returned a command
\* and the cancelCommand calls that cancelled one
Sent == nextCommandId - 1
Handed == {w \in 1..Len(waits) : waits[w].state = "RESOLVED"}
Cancelled == {i \in 1..Len(commandHistory) : commandHistory[i].action = "COMMAND_CANCELLED"}

\* C32 (as claimed): every command that sendCommand accepted is exactly one of
\* PENDING in the queue, returned by a waitForCommand call, or cancelled by
\* cancelCommand; none is discarded, a second command with the id of a PENDING
\* one included.
C32_NoCommandLost ==
    Sent = Len(pendingCommands) + Cardinality(Handed) + Cardinality(Cancelled)

\* the waits that a step resolves with a command
ResolvedByStep ==
    {w \in 1..Len(waits') :
        waits'[w].state = "RESOLVED" /\ (w > Len(waits) \/ waits[w].state # "RESOLVED")}

\* C33: a sent command is returned by at most one waitForCommand call. A step
\* resolves at most one wait; the command it returns is either the one being
\* sent, which then never enters the queue, or one taken out of the queue by
\* that step; and a wait that has returned a command keeps it.
C33_DeliveredAtMostOnce ==
    [][ /\ Cardinality(ResolvedByStep) <= 1
        /\ \A w \in ResolvedByStep :
              \/ /\ nextCommandId' = nextCommandId + 1
                 /\ pendingCommands' = pendingCommands
                 /\ \E c \in CommandInputs :
                       waits'[w].result = [FullCommand(c) EXCEPT !.status = "DELIVERED"]
              \/ /\ nextCommandId' = nextCommandId
                 /\ \E i \in 1..Len(pendingCommands) : pendingCommands[i] = waits'[w].result
                 /\ Len(pendingCommands') = Len(pendingCommands) - 1
                 /\ ~MapHas(pendingCommands', "id", waits'[w].result.id)
        /\ \A w \in 1..Len(waits) :
              waits[w].state = "RESOLVED" => waits'[w] = waits[w]
      ]_vars

\* one command was sent and a wait returned it; a later wait that accepts
\* every command finds nothing and stays registered
C33_Witness ==
    /\ Len(waits) = 2
    /\ nextCommandId = 2
    /\ waits[1].state = "RESOLVED"
    /\ waits[2].state = "ACTIVE"
    /\ waits[2].filters = NoFilters
    /\ pendingCommands = <<>>
    /\ MapHas(waitingAgents, "agentId", waits[2].agentId)

(***************************************************************************)
(* The graph store: GraphDatabase (database.js) over the Neo4j backend.    *)
(* Every method is one action.  A method returns a record: db is the       *)
(* backend as the call leaves it, threw tells whether it raised, value is  *)
(* what it returned.                                                       *)
(***************************************************************************)
ComponentIds == 1..MaxComponents
TaskIds == {10 + i : i \in 1..MaxTasks}
CommentIds == {20 + i : i \in 1..MaxComments}
RelationshipIds == {30 + i : i \in 1..MaxRelationships}
SnapshotIds == 1..MaxSnapshots
MissingId == 99          \* a well-formed id that no node carries
NoProgress == 0 - 1      \* progress = null; a progress p stands for p / 100

\* the members of the enumerations of models.js that the inputs use
ComponentType == {"FILE", "CLASS"}
RelationshipType == {"DEPENDS_ON", "CONTAINS"}
TaskStatus == {"TODO", "DONE"}

Null == [null |-> TRUE]
EmptyObject == [empty |-> TRUE]     \* {}

\* componentData: metadata is the metadata record, flat stands for keys the
\* schema does not know
ComponentInputs ==
    {[id |-> i, type |-> IF i = 1 THEN "FILE" ELSE "CLASS", name |-> "a",
      metadata |-> IF i = 1 THEN NONE ELSE "m", flat |-> NONE] : i \in ComponentIds}
    \cup {[id |-> 1, type |-> "BOGUS", name |-> "a", metadata |-> NONE, flat |-> NONE]}
\* the patch of updateComponent: a field that is NoId / NONE is absent
UpdateInputs == {[id |-> NoId, name |-> "b"], [id |-> MaxComponents, name |-> NONE]}
RelationshipInputs ==
    {[id |-> 30 + i, type |-> IF i = 1 THEN "CONTAINS" ELSE "DEPENDS_ON",
      sourceId |-> 1, targetId |-> IF i = 1 THEN 1 ELSE 2] : i \in 1..MaxRelationships}
    \cup {[id |-> 31, type |-> "BOGUS", sourceId |-> 1, targetId |-> 2]}
TaskInputs ==
    {[id |-> t, status |-> "TODO", progress |-> 0, relatedComponentIds |-> {1}] : t \in TaskIds}
    \cup {[id |-> 11, status |-> "TODO", progress |-> 150, relatedComponentIds |-> {}]}
StatusInputs ==
    {[status |-> "DONE", progress |-> 100], [status |-> "BOGUS", progress |-> NoProgress],
     [status |-> "DONE", progress |-> 150]}
CommentTargets == {1, 11, MissingId}
\* the lists the bulk creates are called with
BulkComponentInputs ==
    {<<a, b>> : a \in ComponentInputs, b \in ComponentInputs}
BulkRelationshipInputs ==
    {l \in {<<a, b>> : a \in RelationshipInputs, b \in RelationshipInputs} : l[1].id # l[2].id}
BulkTaskInputs == {<<a>> : a \in TaskInputs} \cup {<<a, a>> : a \in TaskInputs}

DB == [components |-> components, tasks |-> tasks, comments |-> comments,
       relationships |-> relationships, journal |-> journal, snapshots |-> snapshots]
GraphOf(db) == [components |-> db.components, tasks |-> db.tasks, comments |-> db.comments,
                relationships |-> db.relationships]

Ok(db, value) == [db |-> db, threw |-> FALSE, value |-> value]
Throw(db) == [db |-> db, threw |-> TRUE, value |-> Null]

NodeIds(db) == {n.id : n \in db.components \cup db.tasks \cup db.comments}
HasId(nodes, id) == \E n \in nodes : n.id = id
ById(nodes, id) == CHOOSE n \in nodes : n.id = id
\* DETACH: the edges that do not touch node id
Detach(edges, id) == {r \in edges : r.sourceId # id /\ r.targetId # id}

(***************************************************************************)
(* models.js: a constructor validates its data with the zod schema, which  *)
(* drops the keys it does not know; toNode flattens metadata into the      *)
(* properties of the node.                                                 *)
(***************************************************************************)
ComponentSchemaAccepts(data) == data.type \in ComponentType /\ data.name # ""
Component(data) ==
    [id |-> data.id, type |-> data.type, name |-> data.name, metadata |-> data.metadata]
ComponentToNode(component) ==
    [id |-> component.id, type |-> component.type, name |-> component.name,
     flat |-> component.metadata]
\* the properties of a stored Component node handed back to createComponent
ComponentNodeAsData(props) ==
    [id |-> props.id, type |-> props.type, name |-> props.name,
     metadata |-> NONE, flat |-> props.flat]

RelationshipSchemaAccepts(data) == data.type \in RelationshipType
Relationship(data) ==
    [id |-> data.id, type |-> data.type, sourceId |-> data.sourceId, targetId |-> data.targetId]

TaskSchemaAccepts(data) == data.status \in TaskStatus /\ data.progress \in 0..100
Task(data) ==
    [id |-> data.id, status |-> data.status, progress |-> data.progress,
     relatedComponentIds |-> data.relatedComponentIds]
TaskToNode(task) == [id |-> task.id, status |-> task.status, progress |-> task.progress]
\* the properties of a stored Task node handed back to createTask
TaskNodeAsData(props) ==
    [id |-> props.id, status |-> props.status, progress |-> props.progress,
     relatedComponentIds |-> {}]

(***************************************************************************)
(* history.js: recordChange                                                *)
(***************************************************************************)
\* JSON.stringify(state || {}), and JSON.parse of it when the entry is read
Stringify(state) == IF state = Null THEN EmptyObject ELSE state

recordChange(db, operation, entityType, entityId, beforeState, afterState) ==
    [db EXCEPT !.journal = Append(@,
        [operation |-> operation, entityType |-> entityType, entityId |-> entityId,
         beforeState |-> Stringify(beforeState), afterState |-> Stringify(afterState),
         timestamp |-> now])]

(***************************************************************************)
(* database.js: single-entity operations                                   *)
(***************************************************************************)
createComponent(db, componentData) ==
    IF ~ComponentSchemaAccepts(componentData) THEN Throw(db)
    ELSE IF HasId(db.components, componentData.id) THEN Throw(db)   \* constraint component_id
    ELSE LET createdComponent == ComponentToNode(Component(componentData))
         IN Ok(recordChange([db EXCEPT !.components = @ \cup {createdComponent}],
                            "CREATE_COMPONENT", "COMPONENT", createdComponent.id,
                            Null, createdComponent),
               createdComponent)

getComponent(db, id) == IF HasId(db.components, id) THEN ById(db.components, id) ELSE Null

\* SET c += $updates
updateComponent(db, id, updates) ==
    IF ~HasId(db.components, id) THEN Ok(db, Null)
    ELSE LET c == ById(db.components, id)
             merged == [c EXCEPT !.id = IF updates.id # NoId THEN updates.id ELSE @,
                                 !.name = IF updates.name # NONE THEN updates.name ELSE @]
         IN IF merged.id # id /\ HasId(db.components, merged.id)
            THEN Throw(db)                                          \* constraint component_id
            ELSE Ok([db EXCEPT
                       !.components = (@ \ {c}) \cup {merged},
                       !.relationships =
                           {[r EXCEPT !.sourceId = IF @ = id THEN merged.id ELSE @,
                                      !.targetId = IF @ = id THEN merged.id ELSE @] : r \in @}],
                    merged)

\* MATCH (c:Component {id}) DETACH DELETE c
deleteComponent(db, id) ==
    IF HasId(db.components, id)
    THEN Ok([db EXCEPT !.components = {c \in @ : c.id # id},
                       !.relationships = Detach(@, id)], TRUE)
    ELSE Ok(db, TRUE)

createRelationship(db, relationshipData) ==
    IF ~RelationshipSchemaAccepts(relationshipData) THEN Throw(db)
    ELSE LET relationship == Relationship(relationshipData)
         IN IF HasId(db.components, relationship.sourceId)
               /\ HasId(db.components, relationship.targetId)
            THEN Ok([db EXCEPT !.relationships = @ \cup {relationship}], relationship)
            ELSE Ok(db, Null)

createTask(db, taskData) ==
    IF ~TaskSchemaAccepts(taskData) THEN Throw(db)
    ELSE IF HasId(db.tasks, taskData.id) THEN Throw(db)             \* constraint task_id
    ELSE LET task == Task(taskData)
             links == {[id |-> NoId, type |-> "RELATES_TO", sourceId |-> task.id, targetId |-> c] :
                          c \in {x \in task.relatedComponentIds : HasId(db.components, x)}}
         IN Ok([db EXCEPT !.tasks = @ \cup {TaskToNode(task)},
                          !.relationships = @ \cup links],
               TaskToNode(task))

updateTaskStatus(db, id, status, progress) ==
    IF ~HasId(db.tasks, id) THEN Ok(db, Null)
    ELSE LET t == ById(db.tasks, id)
             updated == [t EXCEPT !.status = status,
                                  !.progress = IF progress # NoProgress THEN progress ELSE @]
         IN Ok([db EXCEPT !.tasks = (@ \ {t}) \cup {updated}], updated)

createComment(db, nodeId, content, commentId) ==
    IF nodeId \notin NodeIds(db) THEN Throw(db)
    ELSE LET comment == [id |-> commentId, content |-> content]
         IN Ok([db EXCEPT !.comments = @ \cup {comment},
                          !.relationships = @ \cup
                              {[id |-> NoId, type |-> "HAS_COMMENT",
                                sourceId |-> nodeId, targetId |-> commentId]}],
               comment)

updateComment(db, commentId, content) ==
    IF ~HasId(db.comments, commentId) THEN Ok(db, Null)
    ELSE LET c == ById(db.comments, commentId)
             updated == [c EXCEPT !.content = content]
         IN Ok([db EXCEPT !.comments = (@ \ {c}) \cup {updated}], updated)

deleteComment(db, commentId) ==
    Ok([db EXCEPT !.comments = {c \in @ : c.id # commentId},
                  !.relationships = IF HasId(db.comments, commentId)
                                    THEN Detach(@, commentId) ELSE @], TRUE)

(***************************************************************************)
(* database.js: bulk operations.  The items are written inside one         *)
(* transaction tx; a throw rolls tx back, which leaves the backend as it   *)
(* was when the call began.                                                *)
(***************************************************************************)
RECURSIVE txCreateComponents(_, _, _)
\* the loop of createComponents over the items left, inside the transaction
txCreateComponents(tx, componentsData, createdComponents) ==
    IF componentsData = <<>> THEN Ok(tx, createdComponents)
    ELSE LET componentData == Head(componentsData)
         IN IF ~ComponentSchemaAccepts(componentData) \/ HasId(tx.components, componentData.id)
            THEN Throw(tx)
            ELSE LET createdComponent == ComponentToNode(Component(componentData))
                 IN txCreateComponents([tx EXCEPT !.components = @ \cup {createdComponent}],
                                       Tail(componentsData),
                                       Append(createdComponents, createdComponent))

RECURSIVE recordBulk(_, _)
\* the loop after the commit: one CREATE_COMPONENT_BULK entry for each created component
recordBulk(db, createdComponents) ==
    IF createdComponents = <<>> THEN db
    ELSE recordBulk(recordChange(db, "CREATE_COMPONENT_BULK", "COMPONENT",
                                 Head(createdComponents).id, Null, Head(createdComponents)),
                    Tail(createdComponents))

\* a faulty createComponents: it writes the journal entries before the commit
createComponentsRecordsBeforeCommit(db, componentsData) ==
    LET recorded == recordBulk(db, [i \in DOMAIN componentsData |->
                                       ComponentToNode(Component(componentsData[i]))])
        r == txCreateComponents(recorded, componentsData, <<>>)
    IN IF r.threw THEN Throw(recorded) ELSE Ok(r.db, r.value)

createComponents(db, componentsData) ==
    LET r == txCreateComponents(db, componentsData, <<>>)
    IN IF r.threw THEN Throw(db)
       ELSE Ok(recordBulk(r.db, r.value), r.value)

RECURSIVE txCreateRelationships(_, _, _)
\* the loop of createRelationships: an item whose MATCH finds no row creates nothing
txCreateRelationships(tx, relationshipsData, createdRelationships) ==
    IF relationshipsData = <<>> THEN Ok(tx, createdRelationships)
    ELSE LET r == createRelationship(tx, Head(relationshipsData))
         IN IF r.threw THEN Throw(tx)
            ELSE txCreateRelationships(r.db, Tail(relationshipsData),
                    IF r.value = Null THEN createdRelationships
                    ELSE Append(createdRelationships, r.value))

createRelationships(db, relationshipsData) ==
    LET r == txCreateRelationships(db, relationshipsData, <<>>)
    IN IF r.threw THEN Throw(db) ELSE r

RECURSIVE txCreateTasks(_, _, _)
txCreateTasks(tx, tasksData, createdTasks) ==
    IF tasksData = <<>> THEN Ok(tx, createdTasks)
    ELSE LET r == createTask(tx, Head(tasksData))
         IN IF r.threw THEN Throw(tx)
            ELSE txCreateTasks(r.db, Tail(tasksData), Append(createdTasks, r.value))

createTasks(db, tasksData) ==
    LET r == txCreateTasks(db, tasksData, <<>>)
    IN IF r.threw THEN Throw(db) ELSE r

(***************************************************************************)
(* history.js: replay                                                      *)
(***************************************************************************)
changesLimit == 1000       \* getChangesByTimeRange(startTime, endTime, limit = 1000)

\* the ChangeEvents with startTime <= timestamp <= endTime, oldest first, at most limit
getChangesByTimeRange(db, startTime, endTime) ==
    LET inRange(c) == c.timestamp >= startTime /\ c.timestamp <= endTime
        found == SelectSeq(db.journal, inRange)
    IN SubSeq(found, 1, IF Len(found) < changesLimit THEN Len(found) ELSE changesLimit)

replayChange(db, change) ==
    CASE change.operation = "CREATE_COMPONENT" ->
            createComponent(db, ComponentNodeAsData(change.afterState))
      [] change.operation = "UPDATE_COMPONENT" ->
            updateComponent(db, change.entityId,
                            [id |-> change.afterState.id, name |-> change.afterState.name])
      [] change.operation = "DELETE_COMPONENT" -> deleteComponent(db, change.entityId)
      [] change.operation = "CREATE_TASK" -> createTask(db, TaskNodeAsData(change.afterState))
      [] change.operation = "UPDATE_TASK" ->
            updateTaskStatus(db, change.entityId, change.afterState.status,
                             change.afterState.progress)
      [] change.operation = "CREATE_RELATIONSHIP" -> createRelationship(db, change.afterState)
      [] OTHER -> Ok(db, Null)          \* console.warn('Unknown operation type')

\* replayLog.push('Cleared current state (excluding change history)')
ClearedLine == [outcome |-> "Cleared current state", operation |-> NONE, entityId |-> NoId]

RECURSIVE replayChangesStopsAtFailure(_, _, _)
\* a faulty loop: the first change that throws ends the replay
replayChangesStopsAtFailure(db, changes, replayLog) ==
    IF changes = <<>> THEN Ok(db, replayLog)
    ELSE LET r == replayChange(db, Head(changes))
         IN IF r.threw
            THEN Ok(r.db, Append(replayLog, [outcome |-> "Failed to replay",
                                             operation |-> Head(changes).operation,
                                             entityId |-> Head(changes).entityId]))
            ELSE replayChangesStopsAtFailure(r.db, Tail(changes),
                    Append(replayLog, [outcome |-> "Replayed",
                                       operation |-> Head(changes).operation,
                                       entityId |-> Head(changes).entityId]))

RECURSIVE replayChanges(_, _, _)
\* the loop of replayToTimestamp: a change that throws is logged and the loop goes on
replayChanges(db, changes, replayLog) ==
    IF changes = <<>> THEN Ok(db, replayLog)
    ELSE LET r == replayChange(db, Head(changes))
         IN replayChanges(r.db, Tail(changes),
                Append(replayLog, [outcome |-> IF r.threw THEN "Failed to replay" ELSE "Replayed",
                                   operation |-> Head(changes).operation,
                                   entityId |-> Head(changes).entityId]))

\* a faulty replayToTimestamp: it clears and replays in a dry run as well
replayToTimestampIgnoresDryRun(db, targetTimestamp, dryRun) ==
    LET changes == getChangesByTimeRange(db, 0, targetTimestamp)
        cleared == [db EXCEPT !.components = {}, !.tasks = {}, !.comments = {},
                              !.relationships = {}, !.snapshots = {}]
    IN replayChanges(cleared, changes, <<ClearedLine>>)

replayToTimestamp(db, targetTimestamp, dryRun) ==
    LET changes == getChangesByTimeRange(db, 0, targetTimestamp)
    IN IF dryRun
       THEN Ok(db, [i \in 1..Len(changes) |->
                       [timestamp |-> changes[i].timestamp, operation |-> changes[i].operation,
                        entityType |-> changes[i].entityType, entityId |-> changes[i].entityId]])
       ELSE \* MATCH (n) WHERE NOT n:ChangeEvent DETACH DELETE n
            LET cleared == [db EXCEPT !.components = {}, !.tasks = {}, !.comments = {},
                                      !.relationships = {}, !.snapshots = {}]
            IN replayChanges(cleared, changes, <<ClearedLine>>)

entityHistoryLimit == 50   \* getEntityHistory(entityId, limit = 50)

\* a sequence in the opposite order
Reverse(q) == [i \in 1..Len(q) |-> q[Len(q) + 1 - i]]

\* the ChangeEvents of entityId, newest first, at most limit of them; the
\* states of a journal entry are kept as JSON.parse gives them back
getEntityHistory(db, entityId) ==
    LET found == Reverse(SelectSeq(db.journal, LAMBDA c : c.entityId = entityId))
    IN SubSeq(found, 1, IF Len(found) < entityHistoryLimit THEN Len(found)
                        ELSE entityHistoryLimit)

(***************************************************************************)
(* history.js: snapshots                                                   *)
(***************************************************************************)
\* the orders in which a query may return the members of set S
Orders(S) == {q \in [1..Cardinality(S) -> S] : \A x \in S : \E i \in DOMAIN q : q[i] = x}

\* the edges createSnapshot reads: type(r) <> "RELATES_TO"
SnapshotEdges(db) == {r \in db.relationships : r.type # "RELATES_TO"}

\* createSnapshot; cs, ts and rs are its three query results, in the order returned
createSnapshot(db, id, cs, ts, rs) ==
    LET snapshot == [id |-> id, timestamp |-> now,
                     data |-> [components |-> cs, tasks |-> ts, relationships |-> rs]]
    IN Ok([db EXCEPT !.snapshots = @ \cup {snapshot}], snapshot)

RECURSIVE restoreComponents(_, _)
restoreComponents(db, list) ==
    IF list = <<>> THEN Ok(db, Null)
    ELSE LET r == createComponent(db, ComponentNodeAsData(Head(list)))
         IN IF r.threw THEN r ELSE restoreComponents(r.db, Tail(list))

RECURSIVE restoreTasks(_, _)
restoreTasks(db, list) ==
    IF list = <<>> THEN Ok(db, Null)
    ELSE LET r == createTask(db, TaskNodeAsData(Head(list)))
         IN IF r.threw THEN r ELSE restoreTasks(r.db, Tail(list))

RECURSIVE restoreRelationships(_, _)
restoreRelationships(db, list) ==
    IF list = <<>> THEN Ok(db, Null)
    ELSE LET r == createRelationship(db, Head(list))
         IN IF r.threw THEN r ELSE restoreRelationships(r.db, Tail(list))

restoreFromSnapshot(db, snapshotId, dryRun) ==
    IF ~HasId(db.snapshots, snapshotId) THEN Throw(db)
    ELSE LET data == ById(db.snapshots, snapshotId).data
         IN IF dryRun
            THEN Ok(db, [componentCount |-> Len(data.components),
                         taskCount |-> Len(data.tasks),
                         relationshipCount |-> Len(data.relationships)])
            ELSE \* MATCH (n) WHERE NOT (n:ChangeEvent OR n:Snapshot) DETACH DELETE n
                 LET cleared == [db EXCEPT !.components = {}, !.tasks = {}, !.comments = {},
                                           !.relationships = {}]
                     c == restoreComponents(cleared, data.components)
                     t == restoreTasks(c.db, data.tasks)
                     r == restoreRelationships(t.db, data.relationships)
                 IN IF c.threw THEN c
                    ELSE IF t.threw THEN t
                    ELSE IF r.threw THEN r
                    ELSE Ok(r.db, [restoredComponents |-> Len(data.components),
                                   restoredTasks |-> Len(data.tasks),
                                   restoredRelationships |-> Len(data.relationships)])

(***************************************************************************)
(* The calls on the store.  A call takes effect as a whole.  The journal   *)
(* is capped at MaxJournal entries, the calls at MaxStoreCalls.            *)
(***************************************************************************)
Commit(r) ==
    /\ storeCalls < MaxStoreCalls
    /\ storeCalls' = storeCalls + 1
    /\ Len(r.db.journal) <= MaxJournal
    /\ components' = r.db.components
    /\ tasks' = r.db.tasks
    /\ comments' = r.db.comments
    /\ relationships' = r.db.relationships
    /\ journal' = r.db.journal
    /\ snapshots' = r.db.snapshots
    /\ UNCHANGED <<brokerVars, serverVars, busVars, now, graphAt, inflight>>

\* the call and what it returned, kept for the properties
Returns(op, args, r) == returned' = [op |-> op, args |-> args, threw |-> r.threw, value |-> r.value]

CallCreateComponent(componentData) ==
    /\ Commit(createComponent(DB, componentData))
    /\ Returns("createComponent", <<componentData>>, createComponent(DB, componentData))
    /\ UNCHANGED <<captured, rewound>>
CallUpdateComponent(id, updates) ==
    /\ Commit(updateComponent(DB, id, updates))
    /\ Returns("updateComponent", <<id, updates>>, updateComponent(DB, id, updates))
    /\ UNCHANGED <<captured, rewound>>
CallDeleteComponent(id) ==
    /\ Commit(deleteComponent(DB, id))
    /\ Returns("deleteComponent", <<id>>, deleteComponent(DB, id))
    /\ UNCHANGED <<captured, rewound>>
CallCreateRelationship(relationshipData) ==
    /\ ~HasId(relationships, relationshipData.id)
    /\ Commit(createRelationship(DB, relationshipData))
    /\ Returns("createRelationship", <<relationshipData>>,
               createRelationship(DB, relationshipData))
    /\ UNCHANGED <<captured, rewound>>
CallCreateTask(taskData) ==
    /\ Commit(createTask(DB, taskData))
    /\ Returns("createTask", <<taskData>>, createTask(DB, taskData))
    /\ UNCHANGED <<captured, rewound>>
CallUpdateTaskStatus(id, status, progress) ==
    /\ Commit(updateTaskStatus(DB, id, status, progress))
    /\ Returns("updateTaskStatus", <<id, status, progress>>,
               updateTaskStatus(DB, id, status, progress))
    /\ UNCHANGED <<captured, rewound>>
CallCreateComment(nodeId, commentId) ==
    /\ ~HasId(comments, commentId)                     \* commentId = uuidv4()
    /\ Commit(createComment(DB, nodeId, "c", commentId))
    /\ Returns("createComment", <<nodeId>>, createComment(DB, nodeId, "c", commentId))
    /\ UNCHANGED <<captured, rewound>>
CallUpdateComment(commentId) ==
    /\ Commit(updateComment(DB, commentId, "e"))
    /\ Returns("updateComment", <<commentId>>, updateComment(DB, commentId, "e"))
    /\ UNCHANGED <<captured, rewound>>
CallDeleteComment(commentId) ==
    /\ Commit(deleteComment(DB, commentId))
    /\ Returns("deleteComment", <<commentId>>, deleteComment(DB, commentId))
    /\ UNCHANGED <<captured, rewound>>
CallCreateComponents(componentsData) ==
    /\ Commit(createComponents(DB, componentsData))
    /\ Returns("createComponents", <<componentsData>>, createComponents(DB, componentsData))
    /\ UNCHANGED <<captured, rewound>>
CallCreateRelationships(relationshipsData) ==
    /\ \A i \in 1..Len(relationshipsData) : ~HasId(relationships, relationshipsData[i].id)
    /\ Commit(createRelationships(DB, relationshipsData))
    /\ Returns("createRelationships", <<relationshipsData>>,
               createRelationships(DB, relationshipsData))
    /\ UNCHANGED <<captured, rewound>>
CallCreateTasks(tasksData) ==
    /\ Commit(createTasks(DB, tasksData))
    /\ Returns("createTasks", <<tasksData>>, createTasks(DB, tasksData))
    /\ UNCHANGED <<captured, rewound>>
CallCreateSnapshot(id) ==
    /\ ~HasId(snapshots, id)                           \* id = uuidv4()
    /\ \E cs \in Orders(components), ts \in Orders(tasks), rs \in Orders(SnapshotEdges(DB)) :
          /\ Commit(createSnapshot(DB, id, cs, ts, rs))
          /\ Returns("createSnapshot", <<>>, createSnapshot(DB, id, cs, ts, rs))
    /\ captured' = [captured EXCEPT ![id] = Graph]
    /\ UNCHANGED rewound
CallRestoreFromSnapshot(snapshotId, dryRun) ==
    /\ Commit(restoreFromSnapshot(DB, snapshotId, dryRun))
    /\ Returns("restoreFromSnapshot", <<snapshotId, dryRun>>,
               restoreFromSnapshot(DB, snapshotId, dryRun))
    /\ rewound' = (rewound \/ (~dryRun /\ HasId(snapshots, snapshotId)))
    /\ UNCHANGED captured
CallReplayToTimestamp(targetTimestamp, dryRun) ==
    /\ Commit(replayToTimestamp(DB, targetTimestamp, dryRun))
    /\ Returns("replayToTimestamp", <<targetTimestamp, dryRun>>,
               replayToTimestamp(DB, targetTimestamp, dryRun))
    /\ rewound' = (rewound \/ ~dryRun)
    /\ UNCHANGED captured

CreateComponent == \E d \in ComponentInputs : CallCreateComponent(d)
UpdateComponent == \E id \in ComponentIds, u \in UpdateInputs : CallUpdateComponent(id, u)
DeleteComponent == \E id \in ComponentIds : CallDeleteComponent(id)
CreateRelationship == \E d \in RelationshipInputs : CallCreateRelationship(d)
CreateTask == \E d \in TaskInputs : CallCreateTask(d)
UpdateTaskStatus ==
    \E id \in TaskIds, u \in StatusInputs : CallUpdateTaskStatus(id, u.status, u.progress)
CreateComment == \E n \in CommentTargets, c \in CommentIds : CallCreateComment(n, c)
UpdateComment == \E c \in CommentIds : CallUpdateComment(c)
DeleteComment == \E c \in CommentIds : CallDeleteComment(c)
CreateComponents == \E l \in BulkComponentInputs : CallCreateComponents(l)
CreateRelationships == \E l \in BulkRelationshipInputs : CallCreateRelationships(l)
CreateTasks == \E l \in BulkTaskInputs : CallCreateTasks(l)
CreateSnapshot == \E id \in SnapshotIds : CallCreateSnapshot(id)
RestoreFromSnapshot ==
    \E id \in SnapshotIds, dryRun \in BOOLEAN : CallRestoreFromSnapshot(id, dryRun)
ReplayToTimestamp ==
    \E t \in 0..MaxTime, dryRun \in BOOLEAN : CallReplayToTimestamp(t, dryRun)

StoreNext ==
    \/ CreateComponent
    \/ UpdateComponent
    \/ DeleteComponent
    \/ CreateRelationship
    \/ CreateTask
    \/ UpdateTaskStatus
    \/ CreateComment
    \/ UpdateComment
    \/ DeleteComment
    \/ CreateComponents
    \/ CreateRelationships
    \/ CreateTasks
    \/ CreateSnapshot
    \/ RestoreFromSnapshot
    \/ ReplayToTimestamp
    \/ Tick

StoreSpec == Init /\ [][StoreNext]_vars

(***************************************************************************)
(* The calls on the store, query by query.  createComment and              *)
(* createSnapshot run several queries in a session without a transaction:  *)
(* each `await session.run` is one step, and the calls of other clients    *)
(* of the store take effect between two steps.                             *)
(***************************************************************************)
\* a call under way: the query it runs next and what it has read so far
CommentCall(nodeId, commentId) ==
    [op |-> "createComment", id |-> commentId, nodeId |-> nodeId, pc |-> "create",
     timestamp |-> now, cs |-> <<>>, ts |-> <<>>, rs |-> <<>>]
SnapshotCall(id, cs) ==
    [op |-> "createSnapshot", id |-> id, nodeId |-> NoId, pc |-> "tasks",
     timestamp |-> now, cs |-> cs, ts |-> <<>>, rs |-> <<>>]

Proceed(call, next) == inflight' = (inflight \ {call}) \cup {next}
AsyncIdle == UNCHANGED <<brokerVars, serverVars, busVars, now, graphAt, captured, rewound>>

\* createComment, first query: MATCH (n) WHERE n.id = $nodeId RETURN n
createCommentCheck(nodeId, commentId) ==
    /\ storeCalls < MaxStoreCalls
    /\ storeCalls' = storeCalls + 1
    /\ ~HasId(comments, commentId)                     \* commentId = uuidv4()
    /\ \A c \in inflight : c.id # commentId
    /\ IF nodeId \in NodeIds(DB)
       THEN /\ inflight' = inflight \cup {CommentCall(nodeId, commentId)}
            /\ UNCHANGED returned
       ELSE /\ Returns("createComment", <<nodeId>>, Throw(DB))
            /\ UNCHANGED inflight
    /\ UNCHANGED <<components, tasks, comments, relationships, journal, snapshots>>
    /\ AsyncIdle

\* second query: CREATE (c:Comment {id, content, author, created})
createCommentCreate(call) ==
    /\ call.op = "createComment" /\ call.pc = "create"
    /\ comments' = comments \cup {[id |-> call.id, content |-> "c"]}
    /\ Proceed(call, [call EXCEPT !.pc = "link"])
    /\ UNCHANGED <<components, tasks, relationships, journal, snapshots, storeCalls, returned>>
    /\ AsyncIdle

\* third query: MATCH (n) WHERE n.id = $nodeId MATCH (c:Comment {id: $commentId})
\* CREATE (n)-[:HAS_COMMENT]->(c); the call then returns the comment
createCommentLink(call) ==
    /\ call.op = "createComment" /\ call.pc = "link"
    /\ relationships' =
          IF call.nodeId \in NodeIds(DB) /\ HasId(comments, call.id)
          THEN relationships \cup {[id |-> NoId, type |-> "HAS_COMMENT",
                                    sourceId |-> call.nodeId, targetId |-> call.id]}
          ELSE relationships
    /\ inflight' = inflight \ {call}
    /\ Returns("createComment", <<call.nodeId>>, Ok(DB, [id |-> call.id, content |-> "c"]))
    /\ UNCHANGED <<components, tasks, comments, journal, snapshots, storeCalls>>
    /\ AsyncIdle

\* createSnapshot, first query: MATCH (c:Component) RETURN c
createSnapshotComponents(id) ==
    /\ storeCalls < MaxStoreCalls
    /\ storeCalls' = storeCalls + 1
    /\ ~HasId(snapshots, id)                           \* id = uuidv4()
    /\ \A c \in inflight : c.id # id
    /\ \E cs \in Orders(components) : inflight' = inflight \cup {SnapshotCall(id, cs)}
    /\ UNCHANGED <<components, tasks, comments, relationships, journal, snapshots, returned>>
    /\ AsyncIdle

\* second query: MATCH (t:Task) RETURN t
createSnapshotTasks(call) ==
    /\ call.op = "createSnapshot" /\ call.pc = "tasks"
    /\ \E ts \in Orders(tasks) : Proceed(call, [call EXCEPT !.pc = "relationships", !.ts = ts])
    /\ UNCHANGED <<components, tasks, comments, relationships, journal, snapshots, storeCalls,
                   returned>>
    /\ AsyncIdle

\* third query: MATCH ()-[r]->() WHERE type(r) <> "RELATES_TO" RETURN r, ...
createSnapshotRelationships(call) ==
    /\ call.op = "createSnapshot" /\ call.pc = "relationships"
    /\ \E rs \in Orders(SnapshotEdges(DB)) :
          Proceed(call, [call EXCEPT !.pc = "store", !.rs = rs])
    /\ UNCHANGED <<components, tasks, comments, relationships, journal, snapshots, storeCalls,
                   returned>>
    /\ AsyncIdle

\* fourth query: CREATE (s:Snapshot) SET s = $snapshot; the call returns the snapshot
createSnapshotStore(call) ==
    /\ call.op = "createSnapshot" /\ call.pc = "store"
    /\ LET snapshot == [id |-> call.id, timestamp |-> call.timestamp,
                        data |-> [components |-> call.cs, tasks |-> call.ts,
                                  relationships |-> call.rs]]
       IN /\ snapshots' = snapshots \cup {snapshot}
          /\ Returns("createSnapshot", <<>>, Ok(DB, snapshot))
    /\ inflight' = inflight \ {call}
    /\ UNCHANGED <<components, tasks, comments, relationships, journal, storeCalls>>
    /\ AsyncIdle

CreateCommentCheck == \E n \in CommentTargets, c \in CommentIds : createCommentCheck(n, c)
CreateCommentCreate == \E call \in inflight : createCommentCreate(call)
CreateCommentLink == \E call \in inflight : createCommentLink(call)
CreateSnapshotComponents == \E id \in SnapshotIds : createSnapshotComponents(id)
CreateSnapshotTasks == \E call \in inflight : createSnapshotTasks(call)
CreateSnapshotRelationships == \E call \in inflight : createSnapshotRelationships(call)
CreateSnapshotStore == \E call \in inflight : createSnapshotStore(call)

AsyncNext ==
    \/ CreateComponent
    \/ DeleteComponent
    \/ CreateRelationship
    \/ CreateTask
    \/ CreateCommentCheck
    \/ CreateCommentCreate
    \/ CreateCommentLink
    \/ CreateSnapshotComponents
    \/ CreateSnapshotTasks
    \/ CreateSnapshotRelationships
    \/ CreateSnapshotStore

AsyncSpec == Init /\ [][AsyncNext]_vars

(***************************************************************************)
(* Properties of the store.                                                *)
(***************************************************************************)
\* the journal has grown by n entries if call result r committed a change of
\* the graph, and by none if the call threw
JournalGrew(r, n) ==
    /\ r.threw => journal' = journal
    /\ (~r.threw /\ GraphOf(r.db) # Graph) => Len(journal') = Len(journal) + n

\* C5 (as claimed): every committed single-entity mutation of the store adds
\* exactly one entry to the Change Journal, a committed bulk create adds one
\* entry for each entity it created, and a call that failed or was rolled back
\* adds none.
C5_OneJournalEntryPerMutation ==
    [][/\ \A d \in ComponentInputs :
             CallCreateComponent(d) => JournalGrew(createComponent(DB, d), 1)
       /\ \A id \in ComponentIds, u \in UpdateInputs :
             CallUpdateComponent(id, u) => JournalGrew(updateComponent(DB, id, u), 1)
       /\ \A id \in ComponentIds :
             CallDeleteComponent(id) => JournalGrew(deleteComponent(DB, id), 1)
       /\ \A d \in RelationshipInputs :
             CallCreateRelationship(d) => JournalGrew(createRelationship(DB, d), 1)
       /\ \A d \in TaskInputs :
             CallCreateTask(d) => JournalGrew(createTask(DB, d), 1)
       /\ \A id \in TaskIds, u \in StatusInputs :
             CallUpdateTaskStatus(id, u.status, u.progress) =>
                 JournalGrew(updateTaskStatus(DB, id, u.status, u.progress), 1)
       /\ \A n \in CommentTargets, c \in CommentIds :
             CallCreateComment(n, c) => JournalGrew(createComment(DB, n, "c", c), 1)
       /\ \A c \in CommentIds :
             CallUpdateComment(c) => JournalGrew(updateComment(DB, c, "e"), 1)
       /\ \A c \in CommentIds :
             CallDeleteComment(c) => JournalGrew(deleteComment(DB, c), 1)
       /\ \A l \in BulkComponentInputs :
             CallCreateComponents(l) =>
                 JournalGrew(createComponents(DB, l), Len(createComponents(DB, l).value))
       /\ \A l \in BulkRelationshipInputs :
             CallCreateRelationships(l) =>
                 JournalGrew(createRelationships(DB, l), Len(createRelationships(DB, l).value))
       /\ \A l \in BulkTaskInputs :
             CallCreateTasks(l) =>
                 JournalGrew(createTasks(DB, l), Len(createTasks(DB, l).value))]_vars

\* the graph as the operations with timestamp <= t left it
StateAt(t) == IF t >= now THEN Graph ELSE graphAt[t]

\* C6 (as claimed): on a store that only mutations have written, a replay to
\* timestamp T that is not a dry run leaves the graph as the operations with
\* timestamp <= T had left it.
C6_ReplayRestoresStateAtT ==
    [][\A t \in 0..MaxTime :
          (CallReplayToTimestamp(t, FALSE) /\ ~rewound) => Graph' = StateAt(t)]_vars

\* the entities of a graph a user sees: Components, Tasks, Comments and the
\* relationships of the RelationshipType enumeration, with their attributes
UserVisible(g) ==
    [components |-> g.components, tasks |-> g.tasks, comments |-> g.comments,
     relationships |-> {r \in g.relationships : r.type \in RelationshipType}]

\* C7 (as claimed): restoring a snapshot, not as a dry run, after any mutations
\* yields the Components, Tasks, Comments and user-visible Relationships that
\* existed when the snapshot was taken.
C7_SnapshotRoundTrip ==
    [][\A id \in SnapshotIds :
          (CallRestoreFromSnapshot(id, FALSE) /\ HasId(snapshots, id)) =>
              UserVisible(Graph') = UserVisible(captured[id])]_vars

\* journal p is an initial part of journal q
IsPrefix(p, q) == Len(p) <= Len(q) /\ SubSeq(q, 1, Len(p)) = p

\* C8 (as claimed): a restore, and a replay that is not a dry run, keep every
\* Snapshot node and every ChangeEvent that existed before the call.
C8_RestoreAndReplayKeepRecords ==
    [][((\E id \in SnapshotIds : CallRestoreFromSnapshot(id, FALSE))
          \/ (\E t \in 0..MaxTime : CallReplayToTimestamp(t, FALSE)))
        => (snapshots \subseteq snapshots' /\ IsPrefix(journal, journal'))]_vars

\* a status of the task-status enumeration with a progress, if any, in [0,1]
ValidStatusAndProgress(status, progress) ==
    status \in TaskStatus /\ (progress = NoProgress \/ progress \in 0..100)

\* C20 (as claimed): createTask, and updateTaskStatus of a stored task, called
\* with a progress outside [0,1] or a status outside the enumeration raise an
\* error and leave the stored tasks as they were.
C20_InvalidTaskInputIsRejected ==
    [][/\ \A d \in TaskInputs :
             (CallCreateTask(d) /\ ~ValidStatusAndProgress(d.status, d.progress)) =>
                 (createTask(DB, d).threw /\ tasks' = tasks)
       /\ \A id \in TaskIds, u \in StatusInputs :
             (CallUpdateTaskStatus(id, u.status, u.progress) /\ HasId(tasks, id)
                 /\ ~ValidStatusAndProgress(u.status, u.progress)) =>
                 (updateTaskStatus(DB, id, u.status, u.progress).threw /\ tasks' = tasks)]_vars

\* C21 (as claimed): a createRelationship call whose source or target
\* component does not exist raises an error and creates no edge and no journal
\* entry; a call that does not raise has both endpoints and has created the edge.
C21_CreateRelationshipNeedsEndpoints ==
    [][\A d \in RelationshipInputs :
          CallCreateRelationship(d) =>
              LET r == createRelationship(DB, d)
                  both == HasId(components, d.sourceId) /\ HasId(components, d.targetId)
              IN /\ ~both => (r.threw /\ relationships' = relationships /\ journal' = journal)
                 /\ ~r.threw => (both /\ \E e \in relationships' : e.id = d.id)]_vars

\* C22 (as claimed): after updateComponent(id, patch) of a stored component,
\* whatever the patch holds, a component is still stored under id, and no
\* component is stored under an id that was not in use before.
C22_UpdateKeepsId ==
    [][\A id \in ComponentIds, u \in UpdateInputs :
          (CallUpdateComponent(id, u) /\ HasId(components, id)) =>
              /\ HasId(components', id)
              /\ {c.id : c \in components'} = {c.id : c \in components}]_vars

\* the journal entries with timestamp <= t, in the order of the journal
EntriesUpTo(t) == SelectSeq(journal, LAMBDA c : c.timestamp <= t)

\* C23: a dry run of restoreFromSnapshot or of replayToTimestamp leaves the
\* graph, the journal and the snapshots as they were; the restore returns the
\* three counts of the snapshot (or fails, for an unknown snapshot), the
\* replay returns the journal entries with timestamp <= T in journal order.
C23_DryRunChangesNothing ==
    [][/\ \A id \in SnapshotIds :
             CallRestoreFromSnapshot(id, TRUE) =>
                 /\ UNCHANGED storeVars
                 /\ IF HasId(snapshots, id)
                    THEN /\ ~returned'.threw
                         /\ returned'.value =
                               [componentCount |-> Len(ById(snapshots, id).data.components),
                                taskCount |-> Len(ById(snapshots, id).data.tasks),
                                relationshipCount |-> Len(ById(snapshots, id).data.relationships)]
                    ELSE returned'.threw
       /\ \A t \in 0..MaxTime :
             CallReplayToTimestamp(t, TRUE) =>
                 /\ UNCHANGED storeVars
                 /\ ~returned'.threw
                 /\ Len(returned'.value) = Len(EntriesUpTo(t))
                 /\ \A i \in 1..Len(EntriesUpTo(t)) :
                       /\ returned'.value[i].operation = EntriesUpTo(t)[i].operation
                       /\ returned'.value[i].entityId = EntriesUpTo(t)[i].entityId
                       /\ returned'.value[i].timestamp = EntriesUpTo(t)[i].timestamp]_vars

\* C23 witness: a dry run of a replay has just listed a journal entry, on a
\* store that holds a component and a snapshot.
C23_Witness ==
    /\ returned.op = "replayToTimestamp"
    /\ returned.args[2] = TRUE
    /\ returned.value # <<>>
    /\ components # {}
    /\ snapshots # {}
    /\ journal # <<>>

\* the ids of the members of a sequence of entities
IdsOf(list) == {list[i].id : i \in DOMAIN list}

C25_ReplayContinuesPastFailures ==
    [][\A t \in 0..MaxTime :
          CallReplayToTimestamp(t, FALSE) =>
              /\ ~returned'.threw
              /\ Len(returned'.value) = 1 + Len(EntriesUpTo(t))
              /\ returned'.value[1].outcome = "Cleared current state"
              /\ \A i \in 1..Len(EntriesUpTo(t)) :
                    /\ returned'.value[i + 1].outcome \in {"Replayed", "Failed to replay"}
                    /\ returned'.value[i + 1].operation = EntriesUpTo(t)[i].operation
                    /\ returned'.value[i + 1].entityId = EntriesUpTo(t)[i].entityId
                    /\ EntriesUpTo(t)[i].operation = "CREATE_COMPONENT" =>
                          HasId(components', EntriesUpTo(t)[i].entityId)]_vars

\* C25 witness: a replay has logged a failed entry followed by an applied
\* entry, and the component of the applied entry is stored.
C25_Witness ==
    /\ returned.op = "replayToTimestamp"
    /\ returned.args[2] = FALSE
    /\ ~returned.threw
    /\ \E i, j \in DOMAIN returned.value :
          /\ i < j
          /\ returned.value[i].outcome = "Failed to replay"
          /\ returned.value[j].outcome = "Replayed"
          /\ returned.value[j].operation = "CREATE_COMPONENT"
          /\ returned.value[j].entityId # returned.value[i].entityId
          /\ HasId(components, returned.value[j].entityId)

\* C26 (as claimed): a replayToTimestamp that is not a dry run applies every
\* journal entry with timestamp <= T, whatever its operation kind: the
\* component of every entry that records the creation of a component, singly
\* or in a bulk, is stored after the replay.
C26_ReplayAppliesEveryKind ==
    [][\A t \in 0..MaxTime :
          CallReplayToTimestamp(t, FALSE) =>
              \A i \in 1..Len(EntriesUpTo(t)) :
                 EntriesUpTo(t)[i].operation \in {"CREATE_COMPONENT", "CREATE_COMPONENT_BULK"} =>
                     HasId(components', EntriesUpTo(t)[i].entityId)]_vars

\* the operation kinds by what they do to the entity
IsCreate(operation) ==
    operation \in {"CREATE_COMPONENT", "CREATE_COMPONENT_BULK", "CREATE_TASK",
                   "CREATE_RELATIONSHIP"}
IsUpdate(operation) == operation \in {"UPDATE_COMPONENT", "UPDATE_TASK"}
IsDelete(operation) == operation \in {"DELETE_COMPONENT", "DELETE_RELATIONSHIP"}

\* C27 (as claimed): every journal entry that getEntityHistory reads back has
\* beforeState null if its operation is a CREATE, afterState null if it is a
\* DELETE, and both states present if it is an UPDATE.
C27_StatesMatchOperation ==
    \A id \in ComponentIds \cup TaskIds :
       \A i \in DOMAIN getEntityHistory(DB, id) :
          LET change == getEntityHistory(DB, id)[i]
          IN /\ IsCreate(change.operation) => change.beforeState = Null
             /\ IsDelete(change.operation) => change.afterState = Null
             /\ IsUpdate(change.operation) =>
                   (change.beforeState # Null /\ change.afterState # Null)

\* the journal entries a step has appended
NewEntries == SubSeq(journal', Len(journal) + 1, Len(journal'))

\* C28: a step only appends to the journal, and every entry it appends records
\* a component that the backend holds, committed, after the step; a
\* createComponent or createComponents that failed or was rolled back appends
\* nothing, and a committed createComponents appends one entry for each item,
\* in the order of its input.
C28_JournalFollowsCommit ==
    [][/\ IsPrefix(journal, journal')
       /\ \A i \in DOMAIN NewEntries :
             \E c \in components' :
                c.id = NewEntries[i].entityId /\ c = NewEntries[i].afterState
       /\ \A d \in ComponentInputs :
             (CallCreateComponent(d) /\ returned'.threw) =>
                 (journal' = journal /\ components' = components)
       /\ \A l \in BulkComponentInputs :
             CallCreateComponents(l) =>
                 IF returned'.threw
                 THEN journal' = journal /\ components' = components
                 ELSE /\ Len(NewEntries) = Len(l)
                      /\ \A i \in DOMAIN l :
                            /\ NewEntries[i].operation = "CREATE_COMPONENT_BULK"
                            /\ NewEntries[i].entityId = l[i].id]_vars

\* C28 witness: a bulk create of two components has committed and the last two
\* journal entries are theirs, in input order.
C28_Witness ==
    /\ returned.op = "createComponents"
    /\ ~returned.threw
    /\ Len(returned.value) = 2
    /\ Len(journal) >= 2
    /\ journal[Len(journal) - 1].entityId = returned.args[1][1].id
    /\ journal[Len(journal)].entityId = returned.args[1][2].id
    /\ returned.args[1][1].id # returned.args[1][2].id
    /\ \A i \in 1..2 : HasId(components, returned.args[1][i].id)

\* the ids of the comments attached to node id
CommentsOf(id) ==
    {r.targetId : r \in {x \in relationships : x.type = "HAS_COMMENT" /\ x.sourceId = id}}

\* C9 (as claimed): after deleteComponent(id) no relationship has id as its
\* source or target, no comment that was attached to id is left in the graph,
\* and getComponent(id) finds nothing.
C9_DeleteComponentCascades ==
    [][\A id \in ComponentIds :
          CallDeleteComponent(id) =>
              /\ \A r \in relationships' : r.sourceId # id /\ r.targetId # id
              /\ \A c \in CommentsOf(id) : ~HasId(comments', c)
              /\ ~HasId(components', id)]_vars

\* a bulk create of n items with result r either created n entities of the
\* kind, or it threw and left graph and journal as they were
AllOrNothing(r, n, before, after) ==
    \/ ~r.threw /\ Cardinality(after \ before) = n
    \/ r.threw /\ Graph' = Graph /\ journal' = journal

\* C10 (as claimed): a bulk create of N components, relationships or tasks
\* either creates all N entities, or reports failure and leaves nothing of the
\* batch in the graph and no journal entry for it.
C10_BulkAllOrNothing ==
    [][/\ \A l \in BulkComponentInputs :
             CallCreateComponents(l) =>
                 AllOrNothing(createComponents(DB, l), Len(l), components, components')
       /\ \A l \in BulkRelationshipInputs :
             CallCreateRelationships(l) =>
                 AllOrNothing(createRelationships(DB, l), Len(l), relationships, relationships')
       /\ \A l \in BulkTaskInputs :
             CallCreateTasks(l) =>
                 AllOrNothing(createTasks(DB, l), Len(l), tasks, tasks')]_vars

\* C35 (as claimed): however createComment(nodeId) and deleteComponent(nodeId)
\* interleave, once the calls are over every Comment node is attached by
\* HAS_COMMENT to an existing node; a createComment whose node is missing, or
\* deleted before the comment is linked, leaves no Comment node.
C35_CommentHasParent ==
    \A c \in comments :
       (\A call \in inflight : call.id # c.id) =>
          \E r \in relationships :
             /\ r.type = "HAS_COMMENT"
             /\ r.targetId = c.id
             /\ r.sourceId \in NodeIds(DB)

\* C37 (as claimed): restoreFromSnapshot and replayToTimestamp without dryRun
\* append nothing to the journal: its entries after the call are those before.
C37_RewindLeavesJournal ==
    [][/\ \A id \in SnapshotIds : CallRestoreFromSnapshot(id, FALSE) => journal' = journal
       /\ \A t \in 0..MaxTime : CallReplayToTimestamp(t, FALSE) => journal' = journal]_vars

\* the ids of the entities a snapshot payload records
PayloadIds(data) ==
    {data.components[i].id : i \in 1..Len(data.components)}
        \cup {data.tasks[i].id : i \in 1..Len(data.tasks)}

\* C36 (as claimed): a snapshot payload is a consistent cut: every relationship
\* it records has its source and its target among the entities it records,
\* whatever the store did while createSnapshot ran.
C36_SnapshotIsConsistentCut ==
    \A sn \in snapshots :
       \A i \in 1..Len(sn.data.relationships) :
          /\ sn.data.relationships[i].sourceId \in PayloadIds(sn.data)
          /\ sn.data.relationships[i].targetId \in PayloadIds(sn.data)

(***************************************************************************)
(* MCPServer (mcp-server.js): the command queue tools of the MCP server.   *)
(* commandQueue keeps every command it was sent, with its status;          *)
(* waitingAgents keeps one entry for each waiting agentId.                 *)
(***************************************************************************)
\* an optional list of a filter: absent, or present with its items
Absent == [present |-> FALSE, items |-> {}]
List(items) == [present |-> TRUE, items |-> items]

\* filters an agent may pass to MCPServer.waitForCommand
ServerFilterInputs ==
    { [priority |-> NONE, taskTypes |-> Absent, componentIds |-> Absent],
      [priority |-> "MEDIUM", taskTypes |-> Absent, componentIds |-> Absent],
      [priority |-> NONE, taskTypes |-> List({}), componentIds |-> List({"Y"})] }

\* arguments a producer may pass to MCPServer.sendCommand
ServerCommandInputs ==
    { [taskType |-> NONE, targetComponentIds |-> {}, priority |-> NONE],
      [taskType |-> "TESTING", targetComponentIds |-> {"Y"}, priority |-> "URGENT"] }

ServerWaitCancelled == "Wait cancelled"
ServerTimedOut == "Timeout waiting for command"

\* calls made so far that the bounds count
ServerCalls == Len(serverWaits) + Len(commandQueue)

MCPServer_commandMatchesFilters(command, filters) ==
    /\ ~(filters.priority # NONE /\ command.priority # filters.priority)
    /\ ~(filters.taskTypes.present /\ command.taskType \notin filters.taskTypes.items)
    /\ ~(filters.componentIds.present
            /\ command.targetComponentIds \cap filters.componentIds.items = {})

\* the `resolve` handle stored with a waiting agent: returns <<waits, agents>>
MCPServer_resolve(ws, agents, entry, command) ==
    <<Settle(ClearTimer(ws, entry.wait), entry.wait, "RESOLVED", command),
      MapDelete(agents, "agentId", entry.agentId)>>

\* the `reject` handle stored with a waiting agent
MCPServer_reject(ws, agents, entry, message) ==
    <<Settle(ClearTimer(ws, entry.wait), entry.wait, "REJECTED", Rejection(message)),
      MapDelete(agents, "agentId", entry.agentId)>>

\* index of the first waiting agent whose filters match, 0 if the loop ends
MCPServer_tryDeliverCommand(agents, command) ==
    LET hits == {i \in 1..Len(agents) :
                    MCPServer_commandMatchesFilters(command, agents[i].filters)}
    IN IF hits = {} THEN 0 ELSE CHOOSE i \in hits : \A j \in hits : i <= j

\* index of the first PENDING command of the queue matching the filters, 0 if none
MCPServer_checkPendingCommands(queue, filters) ==
    LET hits == {i \in 1..Len(queue) :
                    /\ queue[i].status = "PENDING"
                    /\ MCPServer_commandMatchesFilters(queue[i], filters)}
    IN IF hits = {} THEN 0 ELSE CHOOSE i \in hits : \A j \in hits : i <= j

\* the command object sendCommand builds: priority = 'MEDIUM' and
\* targetComponentIds = [] are the defaults of its parameters
MCPServer_command(input) ==
    [id |-> Len(commandQueue) + 1,
     taskType |-> input.taskType,
     targetComponentIds |-> input.targetComponentIds,
     priority |-> IF input.priority = NONE THEN "MEDIUM" ELSE input.priority,
     status |-> "PENDING",
     deliveredTo |-> NONE]

MCPServer_sendCommand(input) ==
    /\ ServerCalls < MaxCalls
    /\ LET command == MCPServer_command(input)
           queued == Append(commandQueue, command)
           m == MCPServer_tryDeliverCommand(serverWaitingAgents, command)
       IN IF m # 0
          THEN LET agent == serverWaitingAgents[m]
                   delivered == [command EXCEPT !.status = "DELIVERED",
                                                !.deliveredTo = agent.agentId]
                   r == MCPServer_resolve(serverWaits, serverWaitingAgents, agent, delivered)
               IN /\ commandQueue' = [queued EXCEPT ![Len(queued)] = delivered]
                  /\ serverWaits' = r[1]
                  /\ serverWaitingAgents' = r[2]
          ELSE /\ commandQueue' = queued
               /\ UNCHANGED <<serverWaits, serverWaitingAgents>>
    /\ UNCHANGED now

MCPServer_waitForCommand(agentId, timeout, filters) ==
    /\ ServerCalls < MaxCalls
    /\ LET w == Len(serverWaits) + 1
           started == Append(serverWaits,
                        [agentId |-> agentId, filters |-> filters, deadline |-> now + timeout,
                         state |-> "ACTIVE", timer |-> TRUE, result |-> NoResult,
                         ended |-> 0])
           entry == [agentId |-> agentId, filters |-> filters, wait |-> w]
           agents == MapSet(serverWaitingAgents, "agentId", entry)
           m == MCPServer_checkPendingCommands(commandQueue, filters)
       IN IF m # 0
          THEN LET delivered == [commandQueue[m] EXCEPT !.status = "DELIVERED",
                                                        !.deliveredTo = agentId]
                   r == MCPServer_resolve(started, agents, entry, delivered)
               IN /\ commandQueue' = [commandQueue EXCEPT ![m] = delivered]
                  /\ serverWaits' = r[1]
                  /\ serverWaitingAgents' = r[2]
          ELSE /\ serverWaits' = started
               /\ serverWaitingAgents' = agents
               /\ UNCHANGED commandQueue
    /\ UNCHANGED now

\* the setTimeout callback of wait w
MCPServer_waitTimeout(w) ==
    /\ serverWaits[w].timer
    /\ serverWaits[w].deadline <= now
    /\ serverWaitingAgents' = MapDelete(serverWaitingAgents, "agentId", serverWaits[w].agentId)
    /\ serverWaits' = Settle(ClearTimer(serverWaits, w), w, "REJECTED", Rejection(ServerTimedOut))
    /\ UNCHANGED <<commandQueue, now>>

MCPServer_cancelCommand(commandId) ==
    /\ IF MapHas(commandQueue, "id", commandId)
       THEN commandQueue' =
                [i \in 1..Len(commandQueue) |->
                    IF commandQueue[i].id = commandId
                    THEN [commandQueue[i] EXCEPT !.status = "CANCELLED"]
                    ELSE commandQueue[i]]
       ELSE UNCHANGED commandQueue
    /\ UNCHANGED <<serverWaits, serverWaitingAgents, now>>

MCPServer_cancelWait(agentId) ==
    /\ IF MapHas(serverWaitingAgents, "agentId", agentId)
       THEN LET r == MCPServer_reject(serverWaits, serverWaitingAgents,
                                      MapGet(serverWaitingAgents, "agentId", agentId),
                                      ServerWaitCancelled)
            IN /\ serverWaits' = r[1]
               /\ serverWaitingAgents' = r[2]
       ELSE UNCHANGED <<serverWaits, serverWaitingAgents>>
    /\ UNCHANGED <<commandQueue, now>>

\* MCPServer.getPendingCommands()
MCPServer_getPendingCommands ==
    {commandQueue[i] : i \in {j \in 1..Len(commandQueue) : commandQueue[j].status = "PENDING"}}

ServerSendCommand ==
    /\ \E c \in ServerCommandInputs : MCPServer_sendCommand(c)
    /\ UNCHANGED <<brokerVars, storeVars, historyVars, busVars>>
ServerWaitForCommand ==
    /\ \E a \in AgentIds, t \in Timeouts, f \in ServerFilterInputs :
            MCPServer_waitForCommand(a, t, f)
    /\ UNCHANGED <<brokerVars, storeVars, historyVars, busVars>>
ServerWaitTimeout ==
    /\ \E w \in 1..Len(serverWaits) : MCPServer_waitTimeout(w)
    /\ UNCHANGED <<brokerVars, storeVars, historyVars, busVars>>
ServerCancelCommand ==
    /\ \E id \in 1..(Len(commandQueue) + 1) : MCPServer_cancelCommand(id)
    /\ UNCHANGED <<brokerVars, storeVars, historyVars, busVars>>
ServerCancelWait ==
    /\ \E a \in AgentIds : MCPServer_cancelWait(a)
    /\ UNCHANGED <<brokerVars, storeVars, historyVars, busVars>>

ServerNext ==
    \/ ServerSendCommand
    \/ ServerWaitForCommand
    \/ ServerWaitTimeout
    \/ ServerCancelCommand
    \/ ServerCancelWait
    \/ Tick

ServerSpec == Init /\ [][ServerNext]_vars

(***************************************************************************)
(* Properties of the command queue of MCPServer.                           *)
(***************************************************************************)
\* C11 (as claimed): a command that is DELIVERED or CANCELLED keeps that
\* status through every later sendCommand, waitForCommand, cancelCommand and
\* cancelWait, and so is never among the pending commands again.
C11_TerminalStatusIsFinal ==
    [][\A i \in 1..Len(commandQueue) :
          commandQueue[i].status \in {"DELIVERED", "CANCELLED"} =>
              /\ commandQueue'[i].status = commandQueue[i].status
              /\ commandQueue'[i] \notin MCPServer_getPendingCommands']_vars

\* a filter accepts a command when each of its fields that is present does:
\* taskTypes, when not empty, holds the command's taskType; componentIds, when
\* not empty, shares an id with the command's targets; the command's priority
\* is at least the filter's under LOW < MEDIUM < HIGH < URGENT
Accepts(command, filters) ==
    /\ (filters.taskTypes.present /\ filters.taskTypes.items # {}
            => command.taskType \in filters.taskTypes.items)
    /\ (filters.componentIds.present /\ filters.componentIds.items # {}
            => command.targetComponentIds \cap filters.componentIds.items # {})
    /\ (filters.priority # NONE
            => priorityLevels(command.priority) >= priorityLevels(filters.priority))

\* C13 (as claimed): the broker matches a command with a wait exactly when
\* the wait's filters accept it: sendCommand delivers the command exactly
\* when a registered waiter's filters accept it, and waitForCommand resolves
\* at once exactly when its filters accept a PENDING command.
C13_MatchIsFilterConjunction ==
    [][/\ \A c \in ServerCommandInputs :
             MCPServer_sendCommand(c) =>
                 ((commandQueue'[Len(commandQueue')].status = "DELIVERED")
                    = (\E i \in 1..Len(serverWaitingAgents) :
                          Accepts(MCPServer_command(c), serverWaitingAgents[i].filters)))
       /\ \A a \in AgentIds, t \in Timeouts, f \in ServerFilterInputs :
             MCPServer_waitForCommand(a, t, f) =>
                 ((serverWaits'[Len(serverWaits')].state = "RESOLVED")
                    = (\E i \in 1..Len(commandQueue) :
                          /\ commandQueue[i].status = "PENDING"
                          /\ Accepts(commandQueue[i], f)))]_vars

\* C17 (as claimed): cancelCommand(id) takes a PENDING command out of the
\* pending commands, so that no later waitForCommand receives it; for an id
\* that is unknown, DELIVERED or CANCELLED it changes no command's status and
\* not the queue.
C17_CancelOnlyPending ==
    [][\A id \in 1..(Len(commandQueue) + 1) :
          MCPServer_cancelCommand(id) =>
              IF \E c \in MCPServer_getPendingCommands : c.id = id
              THEN /\ \A c \in MCPServer_getPendingCommands' : c.id # id
                   /\ \A i \in 1..Len(commandQueue) :
                         commandQueue[i].id # id => commandQueue'[i] = commandQueue[i]
              ELSE commandQueue' = commandQueue]_vars

\* C34 (as claimed): the registration of an agentId is removed only when the
\* wait that created it settles: the timer of an earlier wait of the agent,
\* firing later, leaves the registration of the newer wait in place.
C34_TimerKeepsNewerRegistration ==
    [][\A w \in 1..Len(serverWaits) :
          MCPServer_waitTimeout(w) =>
              \A i \in 1..Len(serverWaitingAgents) :
                 serverWaitingAgents[i].wait # w =>
                    \E j \in 1..Len(serverWaitingAgents') :
                       serverWaitingAgents'[j] = serverWaitingAgents[i]]_vars

(***************************************************************************)
(* The HTTP server (http-server.js): its SSE connections and the listeners *)
(* on the events of the CommandQueue.  Every callback is one action.  The  *)
(* 'connected' event and the heartbeat of a connection, which write to the *)
(* connection's own response only, are left out.                           *)
(***************************************************************************)
\* the x-client-id header of a connection request; NONE: the header is absent
ClientIdHeaders == {"x", NONE}
\* `client-${Date.now()}-${random}`: the id generated for the r-th connection
GeneratedIds == <<"client-1", "client-2", "client-3", "client-4">>
\* the commands and filters of the calls made while events are listened to
BusCommandInputs ==
    {[id |-> NoId, taskType |-> NONE, targetComponentIds |-> {}, priority |-> "MEDIUM"]}
BusFilterInputs == {NoFilters}
BusAgentIds == {"A"}

\* EventEmitter.on, for both events of the queue
on(listener) ==
    /\ ~\E i \in DOMAIN listeners : listeners[i] = listener
    /\ listeners' = Append(listeners, listener)
    /\ UNCHANGED <<sseClients, connections, sseReceived, thrown>>

\* globalCommandQueue.on('command-queued', ...), .on('agent-waiting', ...)
setupEventHandlers == on("SSE")

handleSSEConnection(header) ==
    /\ \E i \in DOMAIN listeners : listeners[i] = "SSE"       \* the server is set up
    /\ Len(connections) < MaxConnections
    /\ LET res == Len(connections) + 1
           clientId == IF header # NONE THEN header ELSE GeneratedIds[res]
       IN /\ connections' = Append(connections,
                [clientId |-> clientId, state |-> "OPEN", broken |-> FALSE])
          /\ sseClients' = MapSet(sseClients, "clientId", [clientId |-> clientId, res |-> res])
          /\ sseReceived' = Append(sseReceived, <<>>)
    /\ UNCHANGED <<listeners, thrown>>

\* a faulty 'close' handler: it leaves the client in the Map
sseCloseKeepsClient(res) ==
    /\ connections[res].state # "CLOSED"
    /\ connections' = [connections EXCEPT ![res].state = "CLOSED"]
    /\ UNCHANGED <<sseClients, listeners, sseReceived, thrown>>

\* req.on('close')
sseClose(res) ==
    /\ connections[res].state # "CLOSED"
    /\ sseClients' = MapDelete(sseClients, "clientId", connections[res].clientId)
    /\ connections' = [connections EXCEPT ![res].state = "CLOSED"]
    /\ UNCHANGED <<listeners, sseReceived, thrown>>

\* req.on('error')
sseError(res) ==
    /\ connections[res].state = "OPEN"
    /\ sseClients' = MapDelete(sseClients, "clientId", connections[res].clientId)
    /\ connections' = [connections EXCEPT ![res].state = "ERRORED"]
    /\ UNCHANGED <<listeners, sseReceived, thrown>>

\* the socket of connection res fails: from now on res.write throws
writeFails(res) ==
    /\ connections[res].state = "OPEN"
    /\ ~connections[res].broken
    /\ connections' = [connections EXCEPT ![res].broken = TRUE]
    /\ UNCHANGED <<listeners, sseClients, sseReceived, thrown>>

BusIdle == UNCHANGED <<brokerVars, now, storeVars, historyVars, serverVars>>

SetupEventHandlers == setupEventHandlers /\ BusIdle
AddListener == on("THROWS") /\ BusIdle
HandleSSEConnection == (\E h \in ClientIdHeaders : handleSSEConnection(h)) /\ BusIdle
SSEClose == (\E r \in DOMAIN connections : sseClose(r)) /\ BusIdle
SSEError == (\E r \in DOMAIN connections : sseError(r)) /\ BusIdle
WriteFails == (\E r \in DOMAIN connections : writeFails(r)) /\ BusIdle
BusWaitForCommand ==
    /\ Calls < MaxBusCalls
    /\ \E a \in BusAgentIds, t \in Timeouts, f \in BusFilterInputs : waitForCommand(a, t, f)
    /\ UNCHANGED <<storeVars, historyVars, serverVars>>
BusSendCommand ==
    /\ Calls < MaxBusCalls
    /\ \E c \in BusCommandInputs : sendCommand(c)
    /\ UNCHANGED <<storeVars, historyVars, serverVars>>

BusNext ==
    \/ SetupEventHandlers
    \/ AddListener
    \/ HandleSSEConnection
    \/ SSEClose
    \/ SSEError
    \/ WriteFails
    \/ BusWaitForCommand
    \/ BusSendCommand

BusSpec == Init /\ [][BusNext]_vars

(***************************************************************************)
(* Properties of the events.                                               *)
(***************************************************************************)
\* the connections that are clients of the Map
Subscribed == {sseClients[i].res : i \in DOMAIN sseClients}

\* C29: the 'close' and the 'error' callback of a connection leave the
\* connection out of the clients of the server and change no wait, waiting
\* agent or pending command; no event is written to a connection after its
\* 'close' or 'error'.
C29_DisconnectUnsubscribes ==
    [][/\ \A r \in DOMAIN connections :
             (sseClose(r) \/ sseError(r)) =>
                 /\ r \notin {sseClients'[i].res : i \in DOMAIN sseClients'}
                 /\ UNCHANGED <<waits, waitingAgents, pendingCommands, commandHistory>>
       /\ \A r \in DOMAIN connections :
             connections[r].state # "OPEN" => sseReceived'[r] = sseReceived[r]]_vars

\* C29 witness: a connection that had received an event is closed, an agent's
\* wait is still outstanding, and another connection has received an event
\* that the closed one has not.
C29_Witness ==
    \E r, q \in DOMAIN connections :
       /\ connections[r].state = "CLOSED"
       /\ sseReceived[r] # <<>>
       /\ connections[q].state = "OPEN"
       /\ Len(sseReceived[q]) > Len(sseReceived[r])
       /\ \E i \in DOMAIN waitingAgents : waits[waitingAgents[i].wait].state = "ACTIVE"

\* C38 (as claimed): the 'close' or 'error' of a connection unregisters that
\* connection only: a newer connection made with the same x-client-id stays
\* a client of the server and keeps receiving the broadcasts.
C38_CloseKeepsNewerConnection ==
    [][\A r \in DOMAIN connections :
          (sseClose(r) \/ sseError(r)) =>
              \A q \in Subscribed \ {r} :
                 q \in {sseClients'[i].res : i \in DOMAIN sseClients'}]_vars

\* the step is a sendCommand or waitForCommand that has emitted its event
Emitted ==
    /\ commandHistory' # commandHistory
    /\ commandHistory'[Len(commandHistory')].action \in {"COMMAND_QUEUED", "WAIT_STARTED"}

\* C30 (as claimed): a sendCommand or waitForCommand that emits its event
\* completes without the error of a listener and leaves every registered
\* agent with an unsettled wait, whatever a listener or an SSE client does;
\* a client whose write fails is dropped, and every other client of the
\* server receives the event.
C30_PublisherNeverFails ==
    [][Emitted =>
          /\ ~thrown'
          /\ \A i \in DOMAIN waitingAgents' : waits'[waitingAgents'[i].wait].state = "ACTIVE"
          /\ (\E i \in DOMAIN listeners : listeners[i] = "SSE") =>
                \A r \in Subscribed :
                   IF connections[r].broken
                   THEN r \notin {sseClients'[i].res : i \in DOMAIN sseClients'}
                   ELSE Len(sseReceived'[r]) = Len(sseReceived[r]) + 1]_vars

====
